---- MODULE Spec2Model ----
(***************************************************************************)
(* Skematix blueprint-to-3D pipeline.                                      *)
(*                                                                         *)
(* Four state machines share this module:                                  *)
(*   Spec        BlueprintPipeline.run_full_pipeline (the orchestrator);   *)
(*   SpecRooms   RoomSet / RoomDetector / stage4_room_detection;           *)
(*   SpecGraph   WallTopologyGraph, stage 3's validation gate and          *)
(*               MetricNormalizer.normalize;                               *)
(*   SpecRefine  WallMaskRefinement.validate / stage2_wall_mask_refinement.*)
(* Each specification moves its own variables and leaves the others at     *)
(* their initial values.                                                   *)
(***************************************************************************)
EXTENDS Integers, Sequences, FiniteSets, TLC

VARIABLES
    \* ---- orchestrator (src/pipeline/orchestrator.py) ----
    pc,             \* position in run_full_pipeline: Idle, AtLoad, AtStage(k), Returned
    runs,           \* number of run_full_pipeline calls made on this object
    out,            \* which stage-output fields of the object are set (not None)
    errors,         \* self.errors
    ret,            \* what the current run returned: NoReturn or [success, message]
    started,        \* stages whose wrapper was entered in the current run, in order
    outcome,        \* what each stage function did in the current run
    loaded,         \* what _load_image did in the current run
    validation,     \* what stage8_validation returned in the current run
    at_start,       \* out and files_written as they were when the current run began
    export_calls,   \* number of calls of stage9_export
    files_written,  \* number of times an output file was opened for writing
    \* ---- rooms (src/pipeline/stage4_room_detection.py) ----
    wall_mask,      \* RoomDetector.wall_mask: uint8 value of every pixel <<x, y>>
    labeled,        \* the labelled regions cv2.connectedComponents returned to detect
    room_set,       \* the RoomSet (detector.rooms, or one built with add_room)
    rpc,            \* "new", "built", "detected", "checked", "separated", "stage4"
    overlap_res,    \* what RoomSet.check_overlap returned
    sep_res,        \* what validate_room_separation returned
    s4,             \* what stage4_room_detection returned
    \* ---- wall graph and normalizer (stage3_topology_extraction.py,
    \*      stage5_metric_normalization.py) ----
    graph,          \* the WallTopologyGraph being built
    gpc,            \* "building", "validated", "stage3", "normalized"
    valid_res,      \* what WallTopologyGraph.validate returned
    s3,             \* what stage3_topology_extraction returned
    norm,           \* what MetricNormalizer.normalize returned
    norm2,          \* what a second normalize, on that result, returned
    complete_mesh,           \* the Mesh of CutawayBuilder.build, or None
    holes,          \* the volumes cut_rectangular_hole was called with
    \* ---- mask refiner (src/pipeline/stage2_wall_refinement.py) ----
    refined_mask,   \* WallMaskRefinement.refined_mask
    fpc,            \* "refined", "validated", "stage2"
    v2,             \* what WallMaskRefinement.validate returned
    s2,             \* what stage2_wall_mask_refinement returned
    \* ---- single components ----
    combined_result, \* a ValidationResult under add_check and add_warning calls
    \* ---- stage 7 in the orchestrator (orchestrator.py, stage7_openings.py) ----
    semantic_output,       \* self.semantic_output: stage 1's SemanticMaskOutput
    normalization_context, \* self.normalization_context
    handed,                \* the masks _stage7_openings passes to stage 7
    openings,              \* what OpeningDetector.detect returned
    opc,                   \* "stage6 done", "stage7 done"
    \* ---- GLB exporter (src/pipeline/stage9_export.py) ----
    gltf_json_bytes,       \* json.dumps(gltf_dict).encode('utf-8')
    buffer_data,           \* GLBExporter.buffer_data
    glb_file,              \* the bytes of the output file, None while there is none
    xpc,                   \* "prepared", "written", "write failed"
    \* ---- key points (src/pipeline/stage3_topology_extraction.py) ----
    skeleton,              \* TopologyExtractor.skeleton: uint8 value of every pixel
    key_points,            \* what _detect_key_points returned
    kpc,                   \* "skeletonized", "detected"
    \* ---- mask refiner (src/pipeline/stage2_wall_refinement.py) ----
    class_map,             \* SemanticMaskOutput.mask handed to stage 2
    cleaned_mask,          \* what WallMaskRefinement.refine returned
    cpc                    \* "segmented", "refined"

orchVars == <<pc, runs, out, errors, ret, started, outcome, loaded, validation,
              at_start, export_calls, files_written>>

roomVars == <<wall_mask, labeled, room_set, rpc, overlap_res, sep_res, s4>>

graphVars == <<graph, gpc, valid_res, s3, norm, norm2>>
meshVars == <<complete_mesh, holes>>

refineVars == <<refined_mask, fpc, v2, s2>>

resultVars == <<combined_result>>

openVars == <<semantic_output, normalization_context, handed, openings, opc>>

exportVars == <<gltf_json_bytes, buffer_data, glb_file, xpc>>

keyVars == <<skeleton, key_points, kpc>>

cleanVars == <<class_map, cleaned_mask, cpc>>

extraVars == <<cleanVars>>

unitVars == <<resultVars, openVars, exportVars, keyVars, extraVars>>

vars == <<orchVars, roomVars, graphVars, refineVars, meshVars, unitVars>>

(***************************************************************************)
(* Bounds of the model.                                                    *)
(***************************************************************************)
MaxRuns == 2
MaxFailed == 2
GridWidth == 14
GridHeight == 13
MaxRooms == 3
MaxVertices == 3
MaxEdges == 2
MaxCuts == 1
MaxCalls == 4
StripWidth == 4
MaxJsonLen == 9
MaxGlbVertices == 2
MaxGlbFaces == 3
SkeletonSize == 3
MaskWidth == 13
MaskHeight == 11
MaxThickness == 5
MaxOpeningWidth == 3

(***************************************************************************)
(* ValidationResult (stage8_validation.py)                                 *)
(***************************************************************************)
ValidationResult ==
    [passed |-> TRUE, checks |-> <<>>, warnings |-> <<>>, errors |-> <<>>]

\* add_check that records a failed check without clearing passed
add_check_keeps_passed(r, name, passed, message) ==
    [r EXCEPT !.checks = Append(@, <<name, passed, message>>),
              !.errors = IF passed THEN @ ELSE Append(@, message)]

add_check(r, name, passed, message) ==
    [r EXCEPT !.checks = Append(@, <<name, passed, message>>),
              !.passed = IF passed THEN @ ELSE FALSE,
              !.errors = IF passed THEN @ ELSE Append(@, message)]

\* add_warning that counts the warning as a failure
add_warning_clears_passed(r, message) ==
    [r EXCEPT !.warnings = Append(@, message), !.passed = FALSE]

add_warning(r, message) ==
    [r EXCEPT !.warnings = Append(@, message)]

\* The names under which validate_all records the checks of MeshValidator,
\* ArchitectureValidator and CutawayValidator, in the order it records them.
CheckNames ==
    << "Mesh: Geometry Count", "Mesh: Manifold Topology", "Mesh: Dimensions",
       "Mesh: Vertex Validity", "Mesh: Numerical Validity",
       "Architecture: Wall Count", "Architecture: Room Count",
       "Architecture: Room Separation", "Architecture: Graph Connectivity",
       "Cutaway: No Roof", "Cutaway: Open-Top Visibility", "Cutaway: Floor Exists" >>

RECURSIVE MergeChecks_fail_fast(_, _, _)
\* merging that stops recording at the first failed check
MergeChecks_fail_fast(r, i, failed) ==
    IF i > Len(CheckNames) \/ ~r.passed THEN r
    ELSE MergeChecks_fail_fast(add_check(r, CheckNames[i], i \notin failed, CheckNames[i]),
                               i + 1, failed)

RECURSIVE MergeChecks(_, _, _)
\* the three "for name, passed, msg in ....checks: combined_result.add_check"
\* loops of validate_all; failed is the set of checks whose outcome is False
MergeChecks(r, i, failed) ==
    IF i > Len(CheckNames) THEN r
    ELSE MergeChecks(add_check(r, CheckNames[i], i \notin failed, CheckNames[i]),
                     i + 1, failed)

validate_all(failed) == MergeChecks(ValidationResult, 1, failed)

\* stage8_validation: validate_all, or on an exception a result with
\* passed = False and the exception text as its only error
stage8_validation(raised, failed) ==
    IF raised
    THEN [ValidationResult EXCEPT !.passed = FALSE, !.errors = <<"exception">>]
    ELSE validate_all(failed)

(***************************************************************************)
(* BlueprintPipeline (orchestrator.py)                                     *)
(***************************************************************************)
Stages == 1..9

Fields == {"image", "semantic_output", "refined_wall_mask", "wall_graph", "room_set",
           "normalized_wall_graph", "normalized_room_set", "normalization_context",
           "blender_model", "model_with_openings", "validation_results", "glb_path"}

\* the fields a stage wrapper assigns when its stage function succeeds
StageFields(k) ==
    CASE k = 1 -> {"semantic_output"}
      [] k = 2 -> {"refined_wall_mask"}
      [] k = 3 -> {"wall_graph"}
      [] k = 4 -> {"room_set"}
      [] k = 5 -> {"normalized_wall_graph", "normalized_room_set", "normalization_context"}
      [] k = 6 -> {"blender_model"}
      [] k = 7 -> {"model_with_openings"}
      [] k = 8 -> {"validation_results"}
      [] k = 9 -> {"glb_path"}

\* stage 4's failure reported with the message of stage 5
FailureMessage_copied(k) ==
    CASE k = 1 -> "Stage 1 failed (Semantic Understanding)"
      [] k = 2 -> "Stage 2 failed (Wall Mask Refinement)"
      [] k = 3 -> "Stage 3 failed (Topology Extraction)"
      [] k \in {4, 5} -> "Stage 5 failed (Metric Normalization)"
      [] k = 6 -> "Stage 6 failed (3D Cutaway Construction)"
      [] k = 7 -> "Stage 7 failed (Openings Generation)"
      [] k = 8 -> "Stage 8 failed (Validation)"
      [] k = 9 -> "Stage 9 failed (Export)"

\* the message run_full_pipeline returns when the wrapper of stage k returned False
FailureMessage(k) ==
    CASE k = 1 -> "Stage 1 failed (Semantic Understanding)"
      [] k = 2 -> "Stage 2 failed (Wall Mask Refinement)"
      [] k = 3 -> "Stage 3 failed (Topology Extraction)"
      [] k = 4 -> "Stage 4 failed (Room Detection - FAIL FAST)"
      [] k = 5 -> "Stage 5 failed (Metric Normalization)"
      [] k = 6 -> "Stage 6 failed (3D Cutaway Construction)"
      [] k = 7 -> "Stage 7 failed (Openings Generation)"
      [] k = 8 -> "Stage 8 failed (Validation)"
      [] k = 9 -> "Stage 9 failed (Export)"

\* positions of run_full_pipeline
Idle == <<"idle", 0>>
AtLoad == <<"load", 0>>
AtStage(k) == <<"stage", k>>
Returned == <<"returned", 0>>

NoReturn == [success |-> FALSE, message |-> "<running>"]

\* What a stage function can do when called: return its value, return the
\* failure value (None, or a False success flag), or raise.
FnOutcomes == {"ok", "fail", "raise"}

\* a wrapper whose except clause lets the run go on
WrapperReturns_swallow(o) == (o # "fail")

\* The boolean a _stageK wrapper returns: its try block returns True after a
\* value came back, False after the failure value, and the except clause
\* returns False.
WrapperReturns(o) == (o = "ok")

\* run_full_pipeline without the early return after stage 2
AfterStage_no_return(k, ok) ==
    IF ok \/ k = 2
    THEN IF k = 9 THEN [pc |-> Returned,
                        ret |-> [success |-> TRUE, message |-> "Pipeline complete"]]
                  ELSE [pc |-> AtStage(k + 1), ret |-> NoReturn]
    ELSE [pc |-> Returned, ret |-> [success |-> FALSE, message |-> FailureMessage(k)]]

\* "if not self._stageK(): return False, <message>" in run_full_pipeline
AfterStage(k, ok) ==
    IF ok
    THEN IF k = 9 THEN [pc |-> Returned,
                        ret |-> [success |-> TRUE, message |-> "Pipeline complete"]]
                  ELSE [pc |-> AtStage(k + 1), ret |-> NoReturn]
    ELSE [pc |-> Returned, ret |-> [success |-> FALSE, message |-> FailureMessage(k)]]

\* the "except Exception as e" clause of run_full_pipeline
OuterHandler ==
    [pc |-> Returned, ret |-> [success |-> FALSE, message |-> "<exception text>"]]

InitOrch ==
    /\ pc = Idle
    /\ runs = 0
    /\ out = [f \in Fields |-> FALSE]
    /\ errors = <<>>
    /\ ret = NoReturn
    /\ started = <<>>
    /\ outcome = [k \in Stages |-> "none"]
    /\ loaded = "none"
    /\ validation = ValidationResult
    /\ at_start = [out |-> [f \in Fields |-> FALSE], files |-> 0]
    /\ export_calls = 0
    /\ files_written = 0

\* run_full_pipeline is entered (lines 103-111); a second call on the same
\* object starts from the fields the first call left.
StartRun ==
    /\ pc \in {Idle, Returned}
    /\ runs < MaxRuns
    /\ runs' = runs + 1
    /\ pc' = AtLoad
    /\ ret' = NoReturn
    /\ started' = <<>>
    /\ outcome' = [k \in Stages |-> "none"]
    /\ loaded' = "none"
    /\ validation' = ValidationResult
    /\ at_start' = [out |-> out, files |-> files_written]
    /\ UNCHANGED <<out, errors, export_calls, files_written>>
    /\ UNCHANGED <<roomVars, graphVars, refineVars, meshVars, unitVars>>

\* _load_image: False when the file is missing or unreadable; an exception
\* raised here (it has no try block) reaches the outer handler.
LoadImage ==
    /\ pc = AtLoad
    /\ \E o \in FnOutcomes :
        /\ loaded' = o
        /\ CASE o = "ok" ->
                  /\ out' = [out EXCEPT !["image"] = TRUE]
                  /\ pc' = AtStage(1)
                  /\ UNCHANGED <<ret, errors>>
             [] o = "fail" ->
                  /\ pc' = Returned
                  /\ ret' = [success |-> FALSE, message |-> "Failed to load image"]
                  /\ UNCHANGED <<out, errors>>
             [] o = "raise" ->
                  /\ pc' = OuterHandler.pc
                  /\ ret' = OuterHandler.ret
                  /\ errors' = Append(errors, OuterHandler.ret.message)
                  /\ UNCHANGED out
    /\ UNCHANGED <<runs, started, outcome, validation, at_start, export_calls, files_written>>
    /\ UNCHANGED <<roomVars, graphVars, refineVars, meshVars, unitVars>>

\* the stages whose wrapper assigns what the stage function returned to
\* the field before testing it for None (_stage1 .. _stage4)
AssignsBeforeTest == 1..4

\* The common shape of _stage1 .. _stage7: call the stage function inside a
\* try block, store its value (in _stage1 .. _stage4 the None of a failure
\* as well), return the wrapper's boolean.
RunStage(k) ==
    /\ pc = AtStage(k)
    /\ started' = Append(started, k)
    /\ \E o \in FnOutcomes :
        /\ outcome' = [outcome EXCEPT ![k] = o]
        /\ out' = IF o = "ok" THEN [f \in Fields |-> out[f] \/ f \in StageFields(k)]
                  ELSE IF o = "fail" /\ k \in AssignsBeforeTest
                  THEN [f \in Fields |-> out[f] /\ f \notin StageFields(k)]
                  ELSE out
        /\ pc' = AfterStage(k, WrapperReturns(o)).pc
        /\ ret' = AfterStage(k, WrapperReturns(o)).ret
    /\ UNCHANGED <<runs, errors, loaded, validation, at_start, export_calls, files_written>>
    /\ UNCHANGED <<roomVars, graphVars, refineVars, meshVars, unitVars>>

Stage1SemanticUnderstanding == RunStage(1)
Stage2WallRefinement == RunStage(2)
Stage3Topology == RunStage(3)
Stage4RoomDetection == RunStage(4)
Stage5MetricNormalization == RunStage(5)
Stage6Construction == RunStage(6)
Stage7Openings == RunStage(7)

FailSets == {S \in SUBSET (1..Len(CheckNames)) : Cardinality(S) <= MaxFailed}

\* _stage8_validation: stage8_validation never raises (it catches and returns
\* passed = False); validation_results is assigned only when passed.
Stage8Validation ==
    /\ pc = AtStage(8)
    /\ started' = Append(started, 8)
    /\ \E raised \in BOOLEAN, failed \in FailSets :
        LET result == stage8_validation(raised, failed)
            o == IF raised THEN "raise" ELSE IF result.passed THEN "ok" ELSE "fail"
        IN  /\ (raised => failed = {})
            /\ validation' = result
            /\ outcome' = [outcome EXCEPT ![8] = o]
            /\ out' = IF result.passed
                      THEN [out EXCEPT !["validation_results"] = TRUE]
                      ELSE out
            /\ pc' = AfterStage(8, result.passed).pc
            /\ ret' = AfterStage(8, result.passed).ret
    /\ UNCHANGED <<runs, errors, loaded, at_start, export_calls, files_written>>
    /\ UNCHANGED <<roomVars, graphVars, refineVars, meshVars, unitVars>>

\* _stage9_export: os.makedirs and the metadata may raise before
\* stage9_export is called; stage9_export returns (True, path) after the file
\* was written and (False, text) otherwise, when the file may have been
\* opened or not.
Stage9Export ==
    /\ pc = AtStage(9)
    /\ started' = Append(started, 9)
    /\ \E o \in FnOutcomes, opened \in BOOLEAN :
        /\ (o = "ok" => opened)
        /\ (o = "raise" => ~opened)
        /\ outcome' = [outcome EXCEPT ![9] = o]
        /\ export_calls' = IF o = "raise" THEN export_calls ELSE export_calls + 1
        /\ files_written' = IF opened THEN files_written + 1 ELSE files_written
        /\ out' = IF o = "ok" THEN [out EXCEPT !["glb_path"] = TRUE] ELSE out
        /\ pc' = AfterStage(9, WrapperReturns(o)).pc
        /\ ret' = AfterStage(9, WrapperReturns(o)).ret
    /\ UNCHANGED <<runs, errors, loaded, validation, at_start>>
    /\ UNCHANGED <<roomVars, graphVars, refineVars, meshVars, unitVars>>

\* get_summary that counts the loaded image as a completed stage
SummaryFields_with_image ==
    {"image", "semantic_output", "refined_wall_mask", "wall_graph", "room_set",
     "normalized_wall_graph", "blender_model", "model_with_openings",
     "validation_results", "glb_path"}

\* the nine fields get_summary tests for "is not None"
SummaryFields ==
    {"semantic_output", "refined_wall_mask", "wall_graph", "room_set",
     "normalized_wall_graph", "blender_model", "model_with_openings",
     "validation_results", "glb_path"}

\* BlueprintPipeline.get_summary: its 'success' and 'stages_completed'
get_summary ==
    [success |-> Len(errors) = 0,
     stages_completed |-> Cardinality({f \in SummaryFields : out[f]}),
     total_stages |-> 9]

NextOrch ==
    \/ StartRun
    \/ LoadImage
    \/ Stage1SemanticUnderstanding
    \/ Stage2WallRefinement
    \/ Stage3Topology
    \/ Stage4RoomDetection
    \/ Stage5MetricNormalization
    \/ Stage6Construction
    \/ Stage7Openings
    \/ Stage8Validation
    \/ Stage9Export



(***************************************************************************)
(* Rational numbers <<numerator, denominator>> in lowest terms, for the    *)
(* true divisions and means of the code.                                   *)
(***************************************************************************)
Abs(x) == IF x < 0 THEN -x ELSE x

RECURSIVE GCD(_, _)
GCD(a, b) == IF b = 0 THEN a ELSE GCD(b, a % b)

Rat(n, d) ==
    LET g == GCD(Abs(n), Abs(d))
        sg == IF d < 0 THEN -1 ELSE 1
    IN  <<(sg * n) \div g, (sg * d) \div g>>

RatDiv(a, b) == Rat(a[1] * b[2], a[2] * b[1])
RatLess(a, b) == a[1] * b[2] < b[1] * a[2]

(***************************************************************************)
(* Room, RoomSet, RoomDetector (stage4_room_detection.py)                  *)
(***************************************************************************)
Pixels == {<<x, y>> : x \in 0..(GridWidth - 1), y \in 0..(GridHeight - 1)}

RECURSIVE SumOf(_, _)
\* sum of f over the set S
SumOf(S, f) ==
    IF S = {} THEN 0
    ELSE LET p == CHOOSE q \in S : TRUE IN f[p] + SumOf(S \ {p}, f)

Min(S) == CHOOSE a \in S : \A b \in S : a <= b
Max(S) == CHOOSE a \in S : \A b \in S : a >= b

Neighbours(p, connectivity) ==
    {q \in {<<p[1] + dx, p[2] + dy>> : dx \in -1..1, dy \in -1..1} :
        q # p /\ (connectivity = 8 \/ q[1] = p[1] \/ q[2] = p[2])}

RECURSIVE Flood(_, _, _, _)
Flood(frontier, seen, fg, connectivity) ==
    IF frontier = {} THEN seen
    ELSE LET nxt == ((UNION {Neighbours(p, connectivity) : p \in frontier}) \cap fg) \ seen
         IN  Flood(nxt, seen \cup nxt, fg, connectivity)

\* first pixel of S in raster order (rows top to bottom, left to right)
RasterFirst(S) ==
    CHOOSE p \in S : \A q \in S : p[2] < q[2] \/ (p[2] = q[2] /\ p[1] <= q[1])

RECURSIVE LabelRegions(_, _, _)
LabelRegions(rest, acc, connectivity) ==
    IF rest = {} THEN acc
    ELSE LET seed == RasterFirst(rest)
             region == Flood({seed}, {seed}, rest, connectivity)
         IN  LabelRegions(rest \ region, Append(acc, region), connectivity)

\* cv2.connectedComponents(image): the regions of the nonzero pixels, label
\* i (from 1) at index i; label 0 is the background of zero pixels
connectedComponents(image, connectivity) ==
    LabelRegions({p \in DOMAIN image : image[p] # 0}, <<>>, connectivity)

\* detect calls cv2.connectedComponents without a connectivity argument
DefaultConnectivity == 8

\* RoomSet.__init__
RoomSet(height, width) ==
    [rooms |-> <<>>, room_counter |-> 0, height |-> height, width |-> width]

\* RoomSet.add_room: the room set with the new room appended
add_room(rs, pixels) ==
    LET area == Cardinality(pixels)
        xs == {q[1] : q \in pixels}
        ys == {q[2] : q \in pixels}
        perimeter == Cardinality({q \in pixels : Neighbours(q, 8) \ pixels # {}})
        room == [id |-> rs.room_counter,
                 pixels |-> pixels,
                 centroid |-> <<Rat(SumOf(pixels, [q \in pixels |-> q[1]]), area),
                                Rat(SumOf(pixels, [q \in pixels |-> q[2]]), area)>>,
                 area_px |-> area,
                 perimeter_px |-> perimeter,
                 bounds |-> <<Min(xs), Min(ys), Max(xs), Max(ys)>>]
    IN  [rs EXCEPT !.rooms = Append(@, room), !.room_counter = @ + 1]

NoPair == <<0, 0>>

RECURSIVE ScanAdjacentOverlap(_, _)
ScanAdjacentOverlap(rooms, i) ==
    IF i + 1 > Len(rooms) THEN NoPair
    ELSE IF rooms[i].pixels \cap rooms[i + 1].pixels # {} THEN <<i, i + 1>>
    ELSE ScanAdjacentOverlap(rooms, i + 1)

\* check_overlap that compares each room with the next one only
check_overlap_adjacent(rs) ==
    LET hit == ScanAdjacentOverlap(rs.rooms, 1)
    IN  [no_overlap |-> hit = NoPair, pair |-> hit]

RECURSIVE ScanOverlap(_, _, _)
\* the two nested loops of check_overlap: room i against every later room j
ScanOverlap(rooms, i, j) ==
    IF i > Len(rooms) THEN NoPair
    ELSE IF j > Len(rooms) THEN ScanOverlap(rooms, i + 1, i + 2)
    ELSE IF rooms[i].pixels \cap rooms[j].pixels # {} THEN <<i, j>>
    ELSE ScanOverlap(rooms, i, j + 1)

\* RoomSet.check_overlap: (no_overlap, the first overlapping pair met)
check_overlap(rs) ==
    LET hit == ScanOverlap(rs.rooms, 1, 2)
    IN  [no_overlap |-> hit = NoPair, pair |-> hit]

MinRoomArea == 20
MaxAreaRatio == 100

\* RoomSet.validate
RoomSetValidate(rs) ==
    IF Len(rs.rooms) < 1 THEN FALSE
    ELSE IF ~check_overlap(rs).no_overlap THEN FALSE
    ELSE LET areas == {rs.rooms[i].area_px : i \in 1..Len(rs.rooms)}
         IN  IF Min(areas) < MinRoomArea THEN FALSE
             ELSE IF Max(areas) > MaxAreaRatio * Min(areas) THEN FALSE
             ELSE TRUE

\* "x <= 1 or x >= shape[1]-2 or y <= 1 or y >= shape[0]-2"
BoundaryMargin == 1
TouchesBoundary(pixels, width, height) ==
    \E q \in pixels : \/ q[1] <= BoundaryMargin
                      \/ q[1] >= width - BoundaryMargin - 1
                      \/ q[2] <= BoundaryMargin
                      \/ q[2] >= height - BoundaryMargin - 1

\* "non_wall_mask = 1 - self.wall_mask" on uint8 arrays
Invert(mask) == [p \in DOMAIN mask |-> (1 - mask[p]) % 256]

RECURSIVE FilterRegions(_, _, _)
\* the loop of detect over the labels: regions under 20 pixels and regions
\* touching the boundary are skipped, the others are added as rooms
FilterRegions(regions, i, rs) ==
    IF i > Len(regions) THEN rs
    ELSE IF Cardinality(regions[i]) < MinRoomArea
         THEN FilterRegions(regions, i + 1, rs)
    ELSE IF TouchesBoundary(regions[i], rs.width, rs.height)
         THEN FilterRegions(regions, i + 1, rs)
    ELSE FilterRegions(regions, i + 1, add_room(rs, regions[i]))

\* RoomDetector.detect
detect(mask) ==
    LET regions == connectedComponents(Invert(mask), DefaultConnectivity)
    IN  [labeled |-> regions,
         room_set |-> FilterRegions(regions, 1, RoomSet(GridHeight, GridWidth))]

\* mask[y0:y1, x0:x1].sum()
SliceSum(mask, y0, y1, x0, x1) ==
    LET S == {q \in DOMAIN mask : y0 <= q[2] /\ q[2] < y1 /\ x0 <= q[1] /\ q[1] < x1}
    IN  SumOf(S, mask)

\* the body of the pair loop of validate_room_separation
GapExists(room1, room2, mask) ==
    LET x1_min == room1.bounds[1]  y1_min == room1.bounds[2]
        x1_max == room1.bounds[3]  y1_max == room1.bounds[4]
        x2_min == room2.bounds[1]  y2_min == room2.bounds[2]
    IN  \/ x1_max < x2_min /\ SliceSum(mask, y1_min, y1_max, x1_max, x2_min) > 0
        \/ y1_max < y2_min /\ SliceSum(mask, y1_max, y2_min, x1_min, x1_max) > 0

RECURSIVE ScanSeparation(_, _, _, _)
ScanSeparation(rooms, i, j, mask) ==
    IF i > Len(rooms) THEN NoPair
    ELSE IF j > Len(rooms) THEN ScanSeparation(rooms, i + 1, i + 2, mask)
    ELSE IF ~GapExists(rooms[i], rooms[j], mask) THEN <<i, j>>
    ELSE ScanSeparation(rooms, i, j + 1, mask)

\* RoomDetector.validate_room_separation (after detect)
validate_room_separation(rs, mask) ==
    IF ~check_overlap(rs).no_overlap
    THEN [is_separated |-> FALSE, pair |-> check_overlap(rs).pair]
    ELSE LET hit == ScanSeparation(rs.rooms, 1, 2, mask)
         IN  [is_separated |-> hit = NoPair, pair |-> hit]

\* stage4_room_detection: the RoomSet, or None
stage4_room_detection(mask) ==
    LET rs == detect(mask).room_set
    IN  IF Len(rs.rooms) < 1 THEN [accepted |-> FALSE, why |-> "no rooms"]
        ELSE IF ~check_overlap(rs).no_overlap THEN [accepted |-> FALSE, why |-> "overlap"]
        ELSE IF ~validate_room_separation(rs, mask).is_separated
             THEN [accepted |-> FALSE, why |-> "not separated"]
        ELSE IF ~RoomSetValidate(rs) THEN [accepted |-> FALSE, why |-> "structure"]
        ELSE [accepted |-> TRUE, why |-> "rooms"]

(***************************************************************************)
(* The masks and room sets the rooms machine starts from.                  *)
(***************************************************************************)
Rect(x0, x1, y0, y1) == {<<x, y>> : x \in x0..x1, y \in y0..y1}

\* A plan shaped like the one of test_complete_pipeline.py (outer wall, a
\* vertical divider, a horizontal divider on the left), nine pieces of
\* which can each be free of wall or not:
\*   1 top-left room, 2 bottom-left room, 3 right room,
\*   4 a gap in the horizontal divider, 5 a gap in the vertical divider,
\*   6 a pixel of the vertical divider level with the horizontal one (it
\*     touches the left rooms only diagonally),
\*   7 a corridor from the top-left room to the image edge,
\*   8 a small pocket in the place of the right room,
\*   9 a pixel of the second column next to the top-left room (the first
\*     column stays wall).
Pieces ==
    << Rect(2, 6, 2, 5), Rect(2, 6, 7, 10), Rect(8, 11, 2, 10),
       {<<4, 6>>}, {<<7, 3>>}, {<<7, 6>>}, Rect(0, 1, 3, 3), Rect(8, 9, 2, 3),
       {<<1, 4>>} >>

WallValues == {1, 255}

PlanMask(chosen, wall) ==
    [p \in Pixels |-> IF \E i \in chosen : p \in Pieces[i] THEN 0 ELSE wall]

ThreeRoomPlan == PlanMask({1, 2, 3}, 1)

ManualPixelSets == (SUBSET {<<2, 2>>, <<3, 2>>, <<2, 3>>}) \ {{}}

RECURSIVE BuiltRoomSets(_)
\* the room sets n calls of add_room can build from ManualPixelSets
BuiltRoomSets(n) ==
    IF n = 0 THEN {RoomSet(GridHeight, GridWidth)}
    ELSE {add_room(rs, px) : rs \in BuiltRoomSets(n - 1), px \in ManualPixelSets}

NoResult == [no_overlap |-> TRUE, pair |-> NoPair]
NoSeparation == [is_separated |-> TRUE, pair |-> NoPair]
NoStage4 == [accepted |-> FALSE, why |-> "not run"]

IdleRooms ==
    /\ wall_mask = <<>>
    /\ labeled = <<>>
    /\ room_set = RoomSet(0, 0)
    /\ rpc = "idle"
    /\ overlap_res = NoResult
    /\ sep_res = NoSeparation
    /\ s4 = NoStage4

InitRooms ==
    /\ labeled = <<>>
    /\ overlap_res = NoResult
    /\ sep_res = NoSeparation
    /\ s4 = NoStage4
    /\ \/ /\ rpc = "new"
          /\ \E chosen \in SUBSET (1..Len(Pieces)), wall \in WallValues :
                wall_mask = PlanMask(chosen, wall)
          /\ room_set = RoomSet(GridHeight, GridWidth)
       \/ /\ rpc = "built"
          /\ wall_mask = PlanMask({}, 1)
          /\ \E n \in 1..MaxRooms : room_set \in BuiltRoomSets(n)

\* detector = RoomDetector(mask); detector.detect()
Detect ==
    /\ rpc = "new"
    /\ labeled' = detect(wall_mask).labeled
    /\ room_set' = detect(wall_mask).room_set
    /\ rpc' = "detected"
    /\ UNCHANGED <<wall_mask, overlap_res, sep_res, s4>>
    /\ UNCHANGED <<orchVars, graphVars, refineVars, meshVars, unitVars>>

\* room_set.check_overlap()
CheckOverlap ==
    /\ rpc \in {"detected", "built"}
    /\ overlap_res' = check_overlap(room_set)
    /\ rpc' = IF rpc = "detected" THEN "checked" ELSE "built checked"
    /\ UNCHANGED <<wall_mask, labeled, room_set, sep_res, s4>>
    /\ UNCHANGED <<orchVars, graphVars, refineVars, meshVars, unitVars>>

\* detector.validate_room_separation()
ValidateRoomSeparation ==
    /\ rpc = "checked"
    /\ sep_res' = validate_room_separation(room_set, wall_mask)
    /\ rpc' = "separated"
    /\ UNCHANGED <<wall_mask, labeled, room_set, overlap_res, s4>>
    /\ UNCHANGED <<orchVars, graphVars, refineVars, meshVars, unitVars>>

\* stage4_room_detection(refined_wall_mask)
Stage4Function ==
    /\ rpc = "new"
    /\ s4' = stage4_room_detection(wall_mask)
    /\ labeled' = detect(wall_mask).labeled
    /\ room_set' = detect(wall_mask).room_set
    /\ rpc' = "stage4"
    /\ UNCHANGED <<wall_mask, overlap_res, sep_res>>
    /\ UNCHANGED <<orchVars, graphVars, refineVars, meshVars, unitVars>>

NextRooms ==
    \/ Detect
    \/ CheckOverlap
    \/ ValidateRoomSeparation
    \/ Stage4Function


(***************************************************************************)
(* WallVertex, WallEdge, WallTopologyGraph (stage3_topology_extraction.py) *)
(* Positions and lengths are rationals.  Vertex and edge ids count from 0; *)
(* the vertex with id i is vertices[i + 1].                                *)
(***************************************************************************)
R(n) == <<n, 1>>
RatSub(a, b) == Rat(a[1] * b[2] - b[1] * a[2], a[2] * b[2])
RatMin(S) == CHOOSE a \in S : \A b \in S : ~RatLess(b, a)
RatMax(S) == CHOOSE a \in S : \A b \in S : ~RatLess(a, b)

WallTopologyGraph ==
    [vertices |-> <<>>, edges |-> <<>>, vertex_counter |-> 0, edge_counter |-> 0,
     adjacency |-> <<>>]

add_vertex(g, position, is_junction, is_corner) ==
    LET vertex == [id |-> g.vertex_counter, position |-> position,
                   is_junction |-> is_junction, is_corner |-> is_corner, degree |-> 0]
    IN  [g EXCEPT !.vertices = Append(@, vertex),
                  !.adjacency = Append(@, {}),
                  !.vertex_counter = @ + 1]

\* add_edge that records the neighbour on one side only
add_edge_one_way(g, a, b, length_px, points) ==
    LET edge == [id |-> g.edge_counter, vertex_a |-> a, vertex_b |-> b,
                 length_px |-> length_px, points |-> points]
    IN  [g EXCEPT !.edges = Append(@, edge),
                  !.adjacency = [@ EXCEPT ![a + 1] = @ \cup {b}],
                  !.vertices = [i \in DOMAIN @ |->
                                   [@[i] EXCEPT !.degree = @ + (IF i = a + 1 THEN 1 ELSE 0)
                                                             + (IF i = b + 1 THEN 1 ELSE 0)]],
                  !.edge_counter = @ + 1]

\* add_edge between the vertices with ids a and b
add_edge(g, a, b, length_px, points) ==
    LET edge == [id |-> g.edge_counter, vertex_a |-> a, vertex_b |-> b,
                 length_px |-> length_px, points |-> points]
    IN  [g EXCEPT !.edges = Append(@, edge),
                  !.adjacency = [i \in DOMAIN @ |->
                                    @[i] \cup (IF i = a + 1 THEN {b} ELSE {})
                                         \cup (IF i = b + 1 THEN {a} ELSE {})],
                  !.vertices = [i \in DOMAIN @ |->
                                   [@[i] EXCEPT !.degree = @ + (IF i = a + 1 THEN 1 ELSE 0)
                                                             + (IF i = b + 1 THEN 1 ELSE 0)]],
                  !.edge_counter = @ + 1]

RECURSIVE SetToSeq(_)
\* the elements of a set of integers in increasing order
SetToSeq(S) == IF S = {} THEN <<>> ELSE <<Min(S)>> \o SetToSeq(S \ {Min(S)})

RECURSIVE BFS(_, _, _)
\* the while loop of _is_connected
BFS(queue, visited, adjacency) ==
    IF queue = <<>> THEN visited
    ELSE LET vid == Head(queue)
         IN  IF vid \in visited THEN BFS(Tail(queue), visited, adjacency)
             ELSE BFS(Tail(queue) \o SetToSeq(adjacency[vid + 1] \ (visited \cup {vid})),
                      visited \cup {vid}, adjacency)

\* WallTopologyGraph._is_connected: breadth-first search from the first vertex
IsConnected(g) ==
    IF Len(g.vertices) = 0 THEN FALSE
    ELSE Cardinality(BFS(<<g.vertices[1].id>>, {}, g.adjacency)) = Len(g.vertices)

MinGraphVertices == 2
MinGraphEdges == 1

\* WallTopologyGraph.validate
GraphValidate(g) ==
    IF Len(g.vertices) < MinGraphVertices
    THEN [valid |-> FALSE, message |-> "Graph has fewer than 2 vertices"]
    ELSE IF Len(g.edges) < MinGraphEdges
    THEN [valid |-> FALSE, message |-> "Graph has no edges"]
    ELSE IF ~IsConnected(g)
    THEN [valid |-> FALSE, message |-> "Graph is not connected (broken wall topology)"]
    ELSE [valid |-> TRUE, message |-> "Graph structure valid"]

None == [none |-> TRUE]

\* the validation gate of stage3_topology_extraction (lines 409-427): the
\* extracted graph, or None when validate rejected it
stage3_topology_extraction(g) ==
    IF GraphValidate(g).valid THEN g ELSE None

(***************************************************************************)
(* MetricNormalizer (stage5_metric_normalization.py)                       *)
(***************************************************************************)
REFERENCE_BUILDING_WIDTH == 12
ScaleMin == <<1, 10>>
ScaleMax == <<100, 1>>

Xs(g) == {g.vertices[i].position[1] : i \in 1..Len(g.vertices)}
Ys(g) == {g.vertices[i].position[2] : i \in 1..Len(g.vertices)}

\* _estimate_building_width that measures the x extent only
EstimateBuildingWidth_x_only(image_shape, g) ==
    IF Len(g.vertices) = 0 THEN R(image_shape[2])
    ELSE RatSub(RatMax(Xs(g)), RatMin(Xs(g)))

\* _estimate_building_width: the larger dimension of the vertex bounding box
EstimateBuildingWidth(image_shape, g) ==
    IF Len(g.vertices) = 0 THEN R(image_shape[2])
    ELSE LET width == RatSub(RatMax(Xs(g)), RatMin(Xs(g)))
             height == RatSub(RatMax(Ys(g)), RatMin(Ys(g)))
         IN  IF RatLess(width, height) THEN height ELSE width

\* _estimate_building_height
EstimateBuildingHeight(image_shape, g) ==
    IF Len(g.vertices) = 0 THEN R(image_shape[1])
    ELSE RatSub(RatMax(Ys(g)), RatMin(Ys(g)))

\* _validate_context: only the scale factor can make it fail
ValidateContext(context) ==
    ~(RatLess(context.scale_factor, ScaleMin) \/ RatLess(ScaleMax, context.scale_factor))

\* a conversion that multiplies by the scale factor
ScalePoint_multiply(p, scale) ==
    <<Rat(p[1][1] * scale[1], p[1][2] * scale[2]), Rat(p[2][1] * scale[1], p[2][2] * scale[2])>>

\* (p[0] / scale_factor, p[1] / scale_factor)
ScalePoint(p, scale) == <<RatDiv(p[1], scale), RatDiv(p[2], scale)>>

RECURSIVE TransformVertices_default_flags(_, _, _, _)
\* the vertex loop with add_vertex called on the position alone, so that
\* is_junction and is_corner take their defaults
TransformVertices_default_flags(old, i, scale, new_graph) ==
    IF i > Len(old.vertices) THEN new_graph
    ELSE TransformVertices_default_flags(old, i + 1, scale,
            add_vertex(new_graph, ScalePoint(old.vertices[i].position, scale), FALSE, FALSE))

RECURSIVE TransformVertices(_, _, _, _)
\* the vertex loop of _transform_wall_graph
TransformVertices(old, i, scale, new_graph) ==
    IF i > Len(old.vertices) THEN new_graph
    ELSE TransformVertices(old, i + 1, scale,
            add_vertex(new_graph, ScalePoint(old.vertices[i].position, scale),
                       old.vertices[i].is_junction, old.vertices[i].is_corner))

RECURSIVE TransformEdges(_, _, _, _)
TransformEdges(old, i, scale, new_graph) ==
    IF i > Len(old.edges) THEN new_graph
    ELSE LET e == old.edges[i]
         IN  TransformEdges(old, i + 1, scale,
                add_edge(new_graph, e.vertex_a, e.vertex_b, RatDiv(e.length_px, scale),
                         [k \in DOMAIN e.points |-> ScalePoint(e.points[k], scale)]))

\* _transform_wall_graph: vertex_mapping sends the old vertex with id i to
\* the i-th vertex added to the new graph, whose id is its position
TransformWallGraph(g, scale) ==
    TransformEdges(g, 1, scale, TransformVertices(g, 1, scale, WallTopologyGraph))

RECURSIVE RatSumOf(_, _)
\* sum of the k-th coordinate over a set of metric pixels
RatSumOf(S, k) ==
    IF S = {} THEN <<0, 1>>
    ELSE LET q == CHOOSE b \in S : TRUE
             r == RatSumOf(S \ {q}, k)
             g == GCD(q[k][2], r[2])
         IN  Rat(q[k][1] * (r[2] \div g) + r[1] * (q[k][2] \div g), (q[k][2] \div g) * r[2])

\* RoomSet.add_room on metric (rational) coordinates, followed by the
\* "update derived properties" assignments of _transform_room_set
add_room_metric(rs, pixels) ==
    LET area == Cardinality(pixels)
        xs == {q[1] : q \in pixels}
        ys == {q[2] : q \in pixels}
        shifted(q) == {<<Rat(q[1][1] + dx * q[1][2], q[1][2]),
                         Rat(q[2][1] + dy * q[2][2], q[2][2])>> :
                           dx \in -1..1, dy \in -1..1} \ {q}
        perimeter == Cardinality({q \in pixels : shifted(q) \ pixels # {}})
        room == [id |-> rs.room_counter,
                 pixels |-> pixels,
                 centroid |-> <<RatDiv(RatSumOf(pixels, 1), R(area)),
                                RatDiv(RatSumOf(pixels, 2), R(area))>>,
                 area_px |-> area,
                 perimeter_px |-> perimeter,
                 bounds |-> <<RatMin(xs), RatMin(ys), RatMax(xs), RatMax(ys)>>]
    IN  [rs EXCEPT !.rooms = Append(@, room), !.room_counter = @ + 1]

RECURSIVE TransformRooms(_, _, _, _)
TransformRooms(old, i, scale, new_room_set) ==
    IF i > Len(old.rooms) THEN new_room_set
    ELSE TransformRooms(old, i + 1, scale,
            add_room_metric(new_room_set,
                {ScalePoint(q, scale) : q \in old.rooms[i].pixels}))

\* _transform_room_set
TransformRoomSet(rs, scale) ==
    TransformRooms(rs, 1, scale, RoomSet(rs.height, rs.width))

NormalizeFailed == [success |-> FALSE, context |-> <<>>, graph |-> None, room_set |-> None]

\* MetricNormalizer(image_shape, wall_graph, room_set).normalize()
normalize(image_shape, g, rs) ==
    IF g = None \/ rs = None THEN NormalizeFailed
    ELSE LET detected_width_px == EstimateBuildingWidth(image_shape, g)
             detected_height_px == EstimateBuildingHeight(image_shape, g)
             context == [image_width_px |-> image_shape[2],
                         image_height_px |-> image_shape[1],
                         detected_width_px |-> detected_width_px,
                         detected_height_px |-> detected_height_px,
                         scale_factor |-> RatDiv(detected_width_px,
                                                 R(REFERENCE_BUILDING_WIDTH)),
                         target_width_m |-> R(REFERENCE_BUILDING_WIDTH)]
         IN  IF ~RatLess(<<0, 1>>, detected_width_px)
                \/ ~RatLess(<<0, 1>>, detected_height_px)
             THEN NormalizeFailed
             ELSE IF ~ValidateContext(context) THEN NormalizeFailed
             ELSE [success |-> TRUE,
                   context |-> context,
                   graph |-> TransformWallGraph(g, context.scale_factor),
                   room_set |-> TransformRoomSet(rs, context.scale_factor)]

(***************************************************************************)
(* Mesh, WallExtrusion, CutawayBuilder (stage6_3d_construction.py)         *)
(* Positions are triples of rationals; vertex indices count from 0, the    *)
(* vertex with index i is vertices[i + 1].                                 *)
(***************************************************************************)
RatAdd(a, b) == Rat(a[1] * b[2] + b[1] * a[2], a[2] * b[2])
RatMul(a, b) == Rat(a[1] * b[1], a[2] * b[2])
RatNeg(a) == <<-a[1], a[2]>>
RatLeq(a, b) == ~RatLess(b, a)

\* the square root of a rational that is the square of a rational
\* (np.linalg.norm on the wall vectors of the graphs built here)
SqrtRat(q) ==
    LET root == CHOOSE r \in 0..(q[1] * q[2]) : r * r = q[1] * q[2]
    IN  Rat(root, q[2])

WALL_THICKNESS == <<11, 50>>
WALL_HEIGHT == <<13, 10>>
FLOOR_SLAB_THICKNESS == <<3, 25>>
FloorPadding == <<1, 2>>
DegenerateLength == <<1, 1000000>>
KeyDecimals == 6

RECURSIVE Pow10(_)
Pow10(n) == IF n = 0 THEN 1 ELSE 10 * Pow10(n - 1)

\* np.round(x, decimals=6) as a count of millionths: the nearest one, the
\* even one when x lies halfway
RoundDecimals(x) ==
    LET whole == x[1] \div x[2]
        rest == (x[1] % x[2]) * Pow10(KeyDecimals)
        low == rest \div x[2]
        twice == 2 * (rest % x[2])
        up == twice > x[2] \/ (twice = x[2] /\ low % 2 = 1)
    IN  whole * Pow10(KeyDecimals) + low + (IF up THEN 1 ELSE 0)

\* key = tuple(np.round(position, decimals=6))
PositionKey(position) == [k \in 1..3 |-> RoundDecimals(position[k])]

\* Mesh.__init__
Mesh == [vertices |-> <<>>, faces |-> <<>>, vertex_hash_map |-> {}]

\* add_vertex without the look-up in vertex_hash_map: every position of the
\* list is appended
MeshAddVertices_no_dedup(mesh, positions) ==
    LET n == Len(positions)
        idx(k) == Len(mesh.vertices) + k - 1
    IN  [mesh |-> [mesh EXCEPT
                     !.vertices = @ \o positions,
                     !.vertex_hash_map =
                         @ \cup {<<PositionKey(positions[k]), idx(k)>> : k \in 1..n}],
         indices |-> [k \in 1..n |-> idx(k)]]

\* Mesh.add_vertex called on each position of a list, in order: a position
\* whose key is in vertex_hash_map (from before the calls or from an earlier
\* position of the list) gets the index recorded there, any other position
\* is appended and gets the length of the vertex list as its index
MeshAddVertices(mesh, positions) ==
    LET n == Len(positions)
        key(k) == PositionKey(positions[k])
        Known(k) == {e \in mesh.vertex_hash_map : e[1] = key(k)}
        First(k) == CHOOSE j \in 1..k :
                        key(j) = key(k) /\ \A i \in 1..(j - 1) : key(i) # key(k)
        IsNew(k) == Known(k) = {} /\ First(k) = k
        NewBefore(k) == Cardinality({j \in 1..(k - 1) : IsNew(j)})
        idx(k) == IF Known(k) # {} THEN (CHOOSE e \in Known(k) : TRUE)[2]
                  ELSE Len(mesh.vertices) + NewBefore(First(k))
        news == SelectSeq([k \in 1..n |-> k], IsNew)
    IN  [mesh |-> [mesh EXCEPT
                     !.vertices = @ \o [i \in 1..Len(news) |-> positions[news[i]]],
                     !.vertex_hash_map =
                         @ \cup {<<key(news[i]), idx(news[i])>> : i \in 1..Len(news)}],
         indices |-> [k \in 1..n |-> idx(k)]]

\* the twelve add_face calls of a box, on vi_bottom (1..4) and vi_top (5..8):
\* bottom, top, four sides
BoxFaces ==
    << <<1, 3, 2>>, <<1, 4, 3>>, <<5, 6, 7>>, <<5, 7, 8>>,
       <<1, 2, 5>>, <<2, 6, 5>>, <<2, 3, 6>>, <<3, 7, 6>>,
       <<3, 4, 7>>, <<4, 8, 7>>, <<4, 1, 8>>, <<1, 5, 8>> >>

\* Mesh.add_face called for each triple of BoxFaces, in order
MeshAddFaces(mesh, vi) ==
    [mesh EXCEPT !.faces = @ \o [k \in 1..Len(BoxFaces) |->
                                    <<vi[BoxFaces[k][1]], vi[BoxFaces[k][2]],
                                      vi[BoxFaces[k][3]]>>]]

\* the eight add_vertex calls and twelve add_face calls of a box whose
\* bottom corners are p[1..4] and top corners p[5..8]
AddBox(mesh, p) ==
    LET added == MeshAddVertices(mesh, p)
    IN  MeshAddFaces(added.mesh, added.indices)

\* WallExtrusion.extrude_wall_edge: the mesh after the call
extrude_wall_edge(p_start, p_end, thickness, height, mesh) ==
    LET wx == RatSub(p_end[1], p_start[1])
        wy == RatSub(p_end[2], p_start[2])
        wall_len == SqrtRat(RatAdd(RatMul(wx, wx), RatMul(wy, wy)))
    IN  IF RatLess(wall_len, DegenerateLength) THEN mesh
        ELSE LET half_thick == RatDiv(thickness, R(2))
                 ox == RatMul(RatNeg(RatDiv(wy, wall_len)), half_thick)
                 oy == RatMul(RatDiv(wx, wall_len), half_thick)
                 corners(z) ==
                     << <<RatSub(p_start[1], ox), RatSub(p_start[2], oy), z>>,
                        <<RatAdd(p_start[1], ox), RatAdd(p_start[2], oy), z>>,
                        <<RatAdd(p_end[1], ox), RatAdd(p_end[2], oy), z>>,
                        <<RatSub(p_end[1], ox), RatSub(p_end[2], oy), z>> >>
             IN  AddBox(mesh, corners(R(0)) \o corners(height))

\* CutawayBuilder._build_floor_slab
BuildFloorSlab(g, mesh) ==
    IF Len(g.vertices) = 0 THEN mesh
    ELSE LET x_min == RatSub(RatMin(Xs(g)), FloorPadding)
             x_max == RatAdd(RatMax(Xs(g)), FloorPadding)
             y_min == RatSub(RatMin(Ys(g)), FloorPadding)
             y_max == RatAdd(RatMax(Ys(g)), FloorPadding)
             corners(z) == << <<x_min, y_min, z>>, <<x_max, y_min, z>>,
                              <<x_max, y_max, z>>, <<x_min, y_max, z>> >>
         IN  AddBox(mesh, corners(RatNeg(FLOOR_SLAB_THICKNESS)) \o corners(R(0)))

RECURSIVE ExtrudeEdges(_, _, _)
\* the loop of _build_walls over the edges
ExtrudeEdges(g, i, mesh) ==
    IF i > Len(g.edges) THEN mesh
    ELSE ExtrudeEdges(g, i + 1,
            extrude_wall_edge(g.vertices[g.edges[i].vertex_a + 1].position,
                              g.vertices[g.edges[i].vertex_b + 1].position,
                              WALL_THICKNESS, WALL_HEIGHT, mesh))

\* CutawayBuilder._build_walls: None without edges
BuildWalls(g, mesh) ==
    IF Len(g.edges) = 0 THEN None ELSE ExtrudeEdges(g, 1, mesh)

\* a builder that gives up on a graph whose walls all have zero length
build_rejects_degenerate(g) ==
    LET floor_mesh == BuildFloorSlab(g, Mesh)
        wall_mesh == BuildWalls(g, floor_mesh)
    IN  IF wall_mesh = None \/ wall_mesh = floor_mesh THEN None ELSE wall_mesh

\* CutawayBuilder.build: the floor slab and the walls go into one mesh;
\* recalculate_normals and validate_manifold change neither vertices nor faces
build(g) ==
    LET floor_mesh == BuildFloorSlab(g, Mesh)
        wall_mesh == BuildWalls(g, floor_mesh)
    IN  IF wall_mesh = None THEN None ELSE wall_mesh

\* tuple(sorted([a, b]))
SortedPair(a, b) == IF a <= b THEN <<a, b>> ELSE <<b, a>>

\* the three edges validate_manifold counts for a face
FaceEdges(face) ==
    << SortedPair(face[1], face[2]), SortedPair(face[2], face[3]),
       SortedPair(face[3], face[1]) >>

\* edge_count[edge] after the loop over the faces
EdgeCount(mesh_, edge) ==
    Cardinality({ik \in (1..Len(mesh_.faces)) \X (1..3) :
                    FaceEdges(mesh_.faces[ik[1]])[ik[2]] = edge})

\* a validation that accepts an edge with a single face (an open border)
validate_manifold_allows_border(mesh_) ==
    \A i \in 1..Len(mesh_.faces), k \in 1..3 :
        EdgeCount(mesh_, FaceEdges(mesh_.faces[i])[k]) <= 2

\* Mesh.validate_manifold: every edge of a face is counted exactly twice
validate_manifold(mesh_) ==
    \A i \in 1..Len(mesh_.faces), k \in 1..3 :
        EdgeCount(mesh_, FaceEdges(mesh_.faces[i])[k]) = 2

(***************************************************************************)
(* The graph machine: a graph is built by add_vertex and add_edge calls,   *)
(* then validated, passed through stage 3's gate, or normalized.           *)
(***************************************************************************)
\* (x, y, is_junction, is_corner) of the vertices that can be added
VertexInputs ==
    { <<0, 0, FALSE, FALSE>>, <<1000, 800, TRUE, FALSE>>, <<500, 400, FALSE, TRUE>>,
      <<1000, 0, FALSE, FALSE>>, <<0, 800, FALSE, FALSE>> }

EdgeLengths == {R(30)}

ImageShape == <<900, 1100>>

\* the room sets handed to the normalizer: one room, two rooms apart, and
\* two rooms that share the pixel (501, 400)
NormRoomInputs ==
    LET empty == RoomSet(ImageShape[1], ImageShape[2])
        first == {<<R(500), R(400)>>, <<R(501), R(400)>>}
        apart == {<<R(600), R(400)>>, <<R(601), R(400)>>, <<R(601), R(401)>>}
        shared == {<<R(501), R(400)>>, <<R(502), R(400)>>}
    IN  { add_room_metric(empty, first),
          add_room_metric(add_room_metric(empty, first), apart),
          add_room_metric(add_room_metric(empty, first), shared) }

NoValid == [valid |-> FALSE, message |-> "not run"]

IdleGraph ==
    /\ graph = WallTopologyGraph
    /\ gpc = "idle"
    /\ valid_res = NoValid
    /\ s3 = None
    /\ norm = NormalizeFailed
    /\ norm2 = NormalizeFailed
    /\ complete_mesh = None
    /\ holes = <<>>

InitGraph ==
    /\ graph = WallTopologyGraph
    /\ gpc = "building"
    /\ valid_res = NoValid
    /\ s3 = None
    /\ norm = NormalizeFailed
    /\ norm2 = NormalizeFailed
    /\ complete_mesh = None
    /\ holes = <<>>

AddVertex ==
    /\ gpc = "building"
    /\ Len(graph.vertices) < MaxVertices
    /\ \E v \in VertexInputs :
          graph' = add_vertex(graph, <<R(v[1]), R(v[2])>>, v[3], v[4])
    /\ UNCHANGED <<gpc, valid_res, s3, norm, norm2>>
    /\ UNCHANGED <<orchVars, roomVars, refineVars, meshVars, unitVars>>

AddEdge ==
    /\ gpc = "building"
    /\ Len(graph.edges) < MaxEdges
    /\ \E a \in 0..(Len(graph.vertices) - 1), b \in 0..(Len(graph.vertices) - 1),
          length_px \in EdgeLengths :
          graph' = add_edge(graph, a, b, length_px,
                            <<graph.vertices[a + 1].position, graph.vertices[b + 1].position>>)
    /\ UNCHANGED <<gpc, valid_res, s3, norm, norm2>>
    /\ UNCHANGED <<orchVars, roomVars, refineVars, meshVars, unitVars>>

\* graph.validate()
Validate ==
    /\ gpc = "building"
    /\ valid_res' = GraphValidate(graph)
    /\ gpc' = "validated"
    /\ UNCHANGED <<graph, s3, norm, norm2>>
    /\ UNCHANGED <<orchVars, roomVars, refineVars, meshVars, unitVars>>

\* the end of stage3_topology_extraction on the graph the extractor built
Stage3Gate ==
    /\ gpc = "building"
    /\ s3' = stage3_topology_extraction(graph)
    /\ gpc' = "stage3"
    /\ UNCHANGED <<graph, valid_res, norm, norm2>>
    /\ UNCHANGED <<orchVars, roomVars, refineVars, meshVars, unitVars>>

\* _transform_wall_graph that writes the metric values into the graph it reads
WallGraphAfterNormalize_in_place(g, result) ==
    IF result.success THEN result.graph ELSE g

\* self.wall_graph after normalize: _transform_wall_graph reads the old
\* vertices and edges and calls add_vertex and add_edge on new_graph only
WallGraphAfterNormalize(g, result) == g

\* self.room_set after normalize: _transform_room_set reads the old rooms
\* and assigns centroid, bounds and area_px on the rooms of new_room_set only
RoomSetAfterNormalize(rs, result) == rs

\* MetricNormalizer(image_shape, graph, room_set).normalize()
Normalize ==
    /\ gpc = "building"
    /\ LET result == normalize(ImageShape, graph, room_set)
       IN  /\ norm' = result
           /\ graph' = WallGraphAfterNormalize(graph, result)
           /\ room_set' = RoomSetAfterNormalize(room_set, result)
    /\ gpc' = "normalized"
    /\ UNCHANGED <<valid_res, s3, norm2>>
    /\ UNCHANGED <<wall_mask, labeled, rpc, overlap_res, sep_res, s4>>
    /\ UNCHANGED <<orchVars, refineVars, meshVars, unitVars>>

\* MetricNormalizer(image_shape, norm_wall_graph, norm_room_set).normalize()
\* on the objects a successful normalize returned
NormalizeAgain ==
    /\ gpc = "normalized"
    /\ norm.success
    /\ LET result == normalize(ImageShape, norm.graph, norm.room_set)
       IN  /\ norm2' = result
           /\ norm' = [norm EXCEPT !.graph = WallGraphAfterNormalize(@, result),
                                   !.room_set = RoomSetAfterNormalize(@, result)]
    /\ gpc' = "renormalized"
    /\ UNCHANGED <<graph, valid_res, s3>>
    /\ UNCHANGED <<orchVars, roomVars, refineVars, meshVars, unitVars>>

NextGraph ==
    \/ AddVertex
    \/ AddEdge
    \/ Validate
    \/ Stage3Gate
    \/ Normalize
    \/ NormalizeAgain

(***************************************************************************)
(* The mesh machine: a metric graph is built, CutawayBuilder.build makes   *)
(* its mesh, and cut_rectangular_hole cuts door and window volumes.        *)
(***************************************************************************)
\* metric positions whose pairwise distances are rational: three collinear
\* points 0.4 m apart and a point 0.3 m off the middle one
MeshVertexInputs ==
    { <<R(0), R(0)>>, <<<<2, 5>>, R(0)>>, <<<<4, 5>>, R(0)>>, <<<<2, 5>>, <<3, 10>>>> }

\* DoorSpec and WindowSpec defaults
DEFAULT_DOOR_SPEC == [width |-> <<9, 10>>, height |-> <<11, 10>>, z_bottom |-> R(0)]
DEFAULT_WINDOW_SPEC == [width |-> <<4, 5>>, height |-> <<1, 2>>, sill_height |-> <<13, 20>>]

\* the arguments generate_doors and generate_windows pass for an opening
\* at (x, y)
DoorHole(x, y) ==
    [center_x |-> x, center_y |-> y,
     width |-> DEFAULT_DOOR_SPEC.width, height |-> DEFAULT_DOOR_SPEC.height,
     z_bottom |-> DEFAULT_DOOR_SPEC.z_bottom, z_top |-> DEFAULT_DOOR_SPEC.height]
WindowHole(x, y) ==
    [center_x |-> x, center_y |-> y,
     width |-> DEFAULT_WINDOW_SPEC.width, height |-> DEFAULT_WINDOW_SPEC.height,
     z_bottom |-> DEFAULT_WINDOW_SPEC.sill_height,
     z_top |-> RatAdd(DEFAULT_WINDOW_SPEC.sill_height, DEFAULT_WINDOW_SPEC.height)]

\* a test of the x and y ranges only, whatever the heights of the vertices
InCuttingVolume_xy_only(mesh_, face, hole) ==
    LET hw == RatDiv(hole.width, R(2))
        hh == RatDiv(hole.height, R(2))
        v(k) == mesh_.vertices[face[k] + 1]
    IN  \A k \in 1..3 :
          /\ RatLeq(RatSub(hole.center_x, hw), v(k)[1])
          /\ RatLeq(v(k)[1], RatAdd(hole.center_x, hw))
          /\ RatLeq(RatSub(hole.center_y, hh), v(k)[2])
          /\ RatLeq(v(k)[2], RatAdd(hole.center_y, hh))

\* "x_min <= v[0] <= x_max" and its y and z forms, for the three vertices
InCuttingVolume(mesh_, face, hole) ==
    LET hw == RatDiv(hole.width, R(2))
        hh == RatDiv(hole.height, R(2))
        x_min == RatSub(hole.center_x, hw)
        x_max == RatAdd(hole.center_x, hw)
        y_min == RatSub(hole.center_y, hh)
        y_max == RatAdd(hole.center_y, hh)
        v(k) == mesh_.vertices[face[k] + 1]
    IN  /\ \A k \in 1..3 : RatLeq(x_min, v(k)[1]) /\ RatLeq(v(k)[1], x_max)
        /\ \A k \in 1..3 : RatLeq(y_min, v(k)[2]) /\ RatLeq(v(k)[2], y_max)
        /\ \A k \in 1..3 : RatLeq(hole.z_bottom, v(k)[3]) /\ RatLeq(v(k)[3], hole.z_top)

\* ManifoldBoolean.cut_rectangular_hole: the marked faces are popped from
\* the highest index down, the others keep their order
cut_rectangular_hole(mesh_, hole) ==
    LET Keep(face) == ~InCuttingVolume(mesh_, face, hole)
    IN  [mesh_ EXCEPT !.faces = SelectSeq(@, Keep)]

\* where the openings are cut: in the first wall, in the corner of the
\* two walls, away from every wall
OpeningCentres == { <<<<1, 5>>, R(0)>>, <<<<2, 5>>, <<3, 20>>>>, <<R(3), R(3)>> }

InitMesh ==
    /\ graph = WallTopologyGraph
    /\ gpc = "building"
    /\ valid_res = NoValid
    /\ s3 = None
    /\ norm = NormalizeFailed
    /\ norm2 = NormalizeFailed
    /\ complete_mesh = None
    /\ holes = <<>>

\* wall_graph.add_vertex at a metric position
AddMetricVertex ==
    /\ gpc = "building"
    /\ Len(graph.vertices) < MaxVertices
    /\ \E position \in MeshVertexInputs :
          graph' = add_vertex(graph, position, FALSE, FALSE)
    /\ UNCHANGED <<gpc, valid_res, s3, norm, norm2>>
    /\ UNCHANGED <<orchVars, roomVars, refineVars, meshVars, unitVars>>

\* CutawayBuilder(graph, room_set, context).build()
Build ==
    /\ gpc = "building"
    /\ complete_mesh' = build(graph)
    /\ gpc' = "built"
    /\ UNCHANGED <<graph, valid_res, s3, norm, norm2, holes>>
    /\ UNCHANGED <<orchVars, roomVars, refineVars, unitVars>>

\* ManifoldBoolean.cut_rectangular_hole(complete_mesh, ...) with the arguments of a
\* door or of a window
CutRectangularHole ==
    /\ gpc = "built"
    /\ complete_mesh # None
    /\ Len(holes) < MaxCuts
    /\ \E c \in OpeningCentres, door \in BOOLEAN :
          LET hole == IF door THEN DoorHole(c[1], c[2]) ELSE WindowHole(c[1], c[2])
          IN  /\ complete_mesh' = cut_rectangular_hole(complete_mesh, hole)
              /\ holes' = Append(holes, hole)
    /\ UNCHANGED <<graph, gpc, valid_res, s3, norm, norm2>>
    /\ UNCHANGED <<orchVars, roomVars, refineVars, unitVars>>

NextMesh ==
    \/ AddMetricVertex
    \/ AddEdge
    \/ Build
    \/ CutRectangularHole

(***************************************************************************)
(* WallMaskRefinement.validate and stage 2's gate                          *)
(* (stage2_wall_refinement.py)                                             *)
(***************************************************************************)
MinWallPixels == 100
MaxWallPercent == 95

RECURSIVE SumRange(_, _, _)
SumRange(f, a, b) == IF a > b THEN 0 ELSE f[a] + SumRange(f, a + 1, b)

\* numpy's mask.sum(): the sum of the stored values, row by row
MaskSum(mask) ==
    LET row == [y \in 0..(GridHeight - 1) |->
                   SumRange([x \in 0..(GridWidth - 1) |-> mask[<<x, y>>]], 0, GridWidth - 1)]
    IN  SumRange(row, 0, GridHeight - 1)

\* WallMaskRefinement.validate on the refined mask
RefinementValidate(mask) ==
    LET wall_pixels == MaskSum(mask)
        total_pixels == Cardinality(DOMAIN mask)
    IN  IF wall_pixels < MinWallPixels
        THEN [is_valid |-> FALSE,
              message |-> "Too few wall pixels remaining after refinement"]
        ELSE IF 100 * wall_pixels > MaxWallPercent * total_pixels
        THEN [is_valid |-> FALSE,
              message |-> "Too many wall pixels (refinement likely failed)"]
        ELSE [is_valid |-> TRUE, message |-> "Refined wall mask valid"]

\* the end of stage2_wall_mask_refinement (lines 254-263): the refined mask,
\* or None when validate rejected it
stage2_wall_mask_refinement(mask) ==
    IF RefinementValidate(mask).is_valid THEN [none |-> FALSE, mask |-> mask] ELSE None

\* the mask whose first n pixels in raster order are wall pixels
FirstPixelsMask(n, wall) ==
    [p \in Pixels |-> IF p[2] * GridWidth + p[1] < n THEN wall ELSE 0]

NoValidate2 == [is_valid |-> FALSE, message |-> "not run"]

IdleRefine ==
    /\ refined_mask = <<>>
    /\ fpc = "idle"
    /\ v2 = NoValidate2
    /\ s2 = None

InitRefine ==
    /\ \E n \in 0..Cardinality(Pixels), wall \in WallValues :
          refined_mask = FirstPixelsMask(n, wall)
    /\ fpc = "refined"
    /\ v2 = NoValidate2
    /\ s2 = None

\* refiner.validate()
Validate2 ==
    /\ fpc = "refined"
    /\ v2' = RefinementValidate(refined_mask)
    /\ fpc' = "validated"
    /\ UNCHANGED <<refined_mask, s2>>
    /\ UNCHANGED <<orchVars, roomVars, graphVars, meshVars, unitVars>>

\* stage2_wall_mask_refinement after refine()
Stage2Gate ==
    /\ fpc = "refined"
    /\ s2' = stage2_wall_mask_refinement(refined_mask)
    /\ fpc' = "stage2"
    /\ UNCHANGED <<refined_mask, v2>>
    /\ UNCHANGED <<orchVars, roomVars, graphVars, meshVars, unitVars>>

NextRefine ==
    \/ Validate2
    \/ Stage2Gate

(***************************************************************************)
(* A ValidationResult under any sequence of add_check and add_warning      *)
(* calls (stage8_validation.py)                                            *)
(***************************************************************************)
CheckInputs == {"Geometry Count", "Manifold Topology"} \X BOOLEAN \X {"8 vertices", "Non-manifold edges: 4"}
WarningInputs == {"thin wall", "large mesh"}

IdleResult ==
    /\ combined_result = ValidationResult

InitResult ==
    /\ combined_result = ValidationResult

\* result.add_check(name, passed, message)
AddCheck ==
    /\ Len(combined_result.checks) + Len(combined_result.warnings) < MaxCalls
    /\ \E c \in CheckInputs :
          combined_result' = add_check(combined_result, c[1], c[2], c[3])
    /\ UNCHANGED <<orchVars, roomVars, graphVars, refineVars, meshVars, openVars, exportVars, keyVars, extraVars>>

\* result.add_warning(message)
AddWarning ==
    /\ Len(combined_result.checks) + Len(combined_result.warnings) < MaxCalls
    /\ \E w \in WarningInputs :
          combined_result' = add_warning(combined_result, w)
    /\ UNCHANGED <<orchVars, roomVars, graphVars, refineVars, meshVars, openVars, exportVars, keyVars, extraVars>>

NextResult ==
    \/ AddCheck
    \/ AddWarning

(***************************************************************************)
(* TopologyExtractor._detect_key_points (stage3_topology_extraction.py)    *)
(***************************************************************************)
SkeletonPixels == {<<x, y>> : x \in 0..(SkeletonSize - 1), y \in 0..(SkeletonSize - 1)}

\* the values a set pixel of the skeleton is stored as
SkeletonValues == {1, 255}

\* skeleton[max(0, y-1):y+2, max(0, x-1):x+2].sum(): the sum of the stored
\* values of the pixel and of its neighbours inside the image
NeighbourhoodSum(sk, x, y) ==
    SumOf({q \in DOMAIN sk : q[1] \in (x - 1)..(x + 1) /\ q[2] \in (y - 1)..(y + 1)}, sk)

\* the (dx, dy) of the two loops of _get_neighbor_directions, in their order
DirectionOrder ==
    << <<-1, -1>>, <<0, -1>>, <<1, -1>>, <<-1, 0>>, <<1, 0>>,
       <<-1, 1>>, <<0, 1>>, <<1, 1>> >>

\* TopologyExtractor._get_neighbor_directions
get_neighbor_directions(sk, x, y) ==
    LET IsSet(d) == <<x + d[1], y + d[2]>> \in DOMAIN sk /\ sk[<<x + d[1], y + d[2]>>] > 0
    IN  SelectSeq(DirectionOrder, IsSet)

\* TopologyExtractor._is_corner: abs(dot) < 0.5
is_corner(directions) ==
    IF Len(directions) # 2 THEN FALSE
    ELSE LET dot == directions[1][1] * directions[2][1] + directions[1][2] * directions[2][2]
         IN  2 * Abs(dot) < 1

\* the list the loop of _detect_key_points puts the skeleton pixel (x, y) in
KeyPointKind(sk, x, y) ==
    LET neighbor_count == NeighbourhoodSum(sk, x, y) - 1
    IN  IF neighbor_count = 1 THEN "endpoint"
        ELSE IF neighbor_count = 2
             THEN IF is_corner(get_neighbor_directions(sk, x, y)) THEN "corner" ELSE "none"
        ELSE IF neighbor_count >= 3 THEN "junction"
        ELSE "none"

\* np.argwhere order: rows from the top, each row from the left
RasterOrder ==
    [i \in 1..(SkeletonSize * SkeletonSize) |->
        <<(i - 1) % SkeletonSize, (i - 1) \div SkeletonSize>>]

\* TopologyExtractor._detect_key_points
detect_key_points(sk) ==
    LET Junction(q) == sk[q] > 0 /\ KeyPointKind(sk, q[1], q[2]) = "junction"
        Corner(q) == sk[q] > 0 /\ KeyPointKind(sk, q[1], q[2]) = "corner"
        Endpoint(q) == sk[q] > 0 /\ KeyPointKind(sk, q[1], q[2]) = "endpoint"
    IN  [junctions |-> SelectSeq(RasterOrder, Junction),
         corners |-> SelectSeq(RasterOrder, Corner),
         endpoints |-> SelectSeq(RasterOrder, Endpoint)]

NoKeyPoints == [junctions |-> <<>>, corners |-> <<>>, endpoints |-> <<>>]

IdleKeyPoints ==
    /\ skeleton = <<>>
    /\ key_points = NoKeyPoints
    /\ kpc = "idle"

\* after _skeletonize_wall_mask
InitKeyPoints ==
    /\ \E value \in SkeletonValues : skeleton \in [SkeletonPixels -> {0, value}]
    /\ key_points = NoKeyPoints
    /\ kpc = "skeletonized"

\* self._detect_key_points()
DetectKeyPoints ==
    /\ kpc = "skeletonized"
    /\ key_points' = detect_key_points(skeleton)
    /\ kpc' = "detected"
    /\ UNCHANGED skeleton
    /\ UNCHANGED <<orchVars, roomVars, graphVars, refineVars, meshVars, resultVars, openVars, exportVars, extraVars>>

NextKeyPoints == DetectKeyPoints

(***************************************************************************)
(* GLBExporter._write_glb_file (stage9_export.py)                          *)
(***************************************************************************)
GLTF_MAGIC == 1179937895      \* 0x46546C67
GLTF_VERSION == 2
JsonChunkType == 1313821514   \* 0x4E4F534A
BinChunkType == 5130562       \* 0x004E4942
GlbHeaderLength == 12
JsonPadByte == 32             \* b'\x20'
BinPadByte == 0               \* b'\x00'

\* struct.pack('<I', v): the four bytes of v, lowest first
PackU32(v) ==
    << v % 256, (v \div 256) % 256, (v \div 65536) % 256, (v \div 16777216) % 256 >>

\* (4 - (n % 4)) % 4
Padding(n) == (4 - (n % 4)) % 4

\* data + byte * Padding(len(data))
Padded(data, byte) == data \o [i \in 1..Padding(Len(data)) |-> byte]

\* struct.pack('<II', len(chunk_data), chunk_type) + chunk_data
Chunk(chunk_data, chunk_type) ==
    PackU32(Len(chunk_data)) \o PackU32(chunk_type) \o chunk_data

\* a file size that counts the payloads without their chunk headers
FileSize_payloads_only(json_chunk, bin_chunk) ==
    GlbHeaderLength + (Len(json_chunk) - 8) + (Len(bin_chunk) - 8)

\* file_size = 12 + len(json_chunk) + len(bin_chunk)
FileSize(json_chunk, bin_chunk) == GlbHeaderLength + Len(json_chunk) + Len(bin_chunk)

\* the bytes _write_glb_file writes: header, JSON chunk, binary chunk
GlbBytes(json_bytes, buffer) ==
    LET json_chunk == Chunk(Padded(json_bytes, JsonPadByte), JsonChunkType)
        bin_chunk == Chunk(Padded(buffer, BinPadByte), BinChunkType)
        file_size == FileSize(json_chunk, bin_chunk)
    IN  PackU32(GLTF_MAGIC) \o PackU32(GLTF_VERSION) \o PackU32(file_size)
            \o json_chunk \o bin_chunk

\* len(self.buffer_data) after _prepare_geometry: nothing for a mesh without
\* vertices or without faces, else float32 positions and normals (12 bytes
\* each per vertex) and three uint32 indices per face
BufferLength(vertex_count, face_count) ==
    IF vertex_count = 0 \/ face_count = 0 THEN 0
    ELSE 12 * vertex_count + 12 * vertex_count + 12 * face_count

\* a JSON text of n bytes: an object of blanks
JsonText(n) == [i \in 1..n |-> IF i = 1 THEN 123 ELSE IF i = n THEN 125 ELSE 32]

IdleExport ==
    /\ gltf_json_bytes = <<>>
    /\ buffer_data = <<>>
    /\ glb_file = None
    /\ xpc = "idle"

\* after _prepare_geometry and json.dumps
InitExport ==
    /\ \E n \in 2..MaxJsonLen : gltf_json_bytes = JsonText(n)
    /\ \E vertex_count \in 0..MaxGlbVertices, face_count \in 0..MaxGlbFaces :
          buffer_data = [i \in 1..BufferLength(vertex_count, face_count) |-> i % 256]
    /\ glb_file = None
    /\ xpc = "prepared"

\* _write_glb_file: the three writes, or an exception of makedirs or open
\* that leaves no file
WriteGlbFile ==
    /\ xpc = "prepared"
    /\ \E opened \in BOOLEAN :
          IF opened
          THEN glb_file' = GlbBytes(gltf_json_bytes, buffer_data) /\ xpc' = "written"
          ELSE glb_file' = None /\ xpc' = "write failed"
    /\ UNCHANGED <<gltf_json_bytes, buffer_data>>
    /\ UNCHANGED <<orchVars, roomVars, graphVars, refineVars, meshVars, resultVars, openVars, keyVars, extraVars>>

NextExport == WriteGlbFile

(***************************************************************************)
(* Stage 7 as the orchestrator runs it: _stage7_openings takes the masks   *)
(* from self.semantic_output and calls stage7_openings_generation          *)
(* (orchestrator.py, stage1_semantic_segmentation.py, stage7_openings.py)  *)
(***************************************************************************)
SemanticClass == [BACKGROUND |-> 0, WALL |-> 1, DOOR |-> 2, WINDOW |-> 3]

\* the pixels of an image one row high
StripPixels == {<<x, 0>> : x \in 0..(StripWidth - 1)}

\* SemanticMaskOutput.__init__: the attributes of the object
SemanticMaskOutput(mask, image_shape) ==
    [mask |-> mask, height |-> image_shape[1], width |-> image_shape[2]]

\* SemanticMaskOutput.get_class_mask
get_class_mask(so, class_id) ==
    [p \in DOMAIN so.mask |-> IF so.mask[p] = class_id THEN 1 ELSE 0]

get_wall_mask(so) == get_class_mask(so, SemanticClass.WALL)
get_door_mask(so) == get_class_mask(so, SemanticClass.DOOR)
get_window_mask(so) == get_class_mask(so, SemanticClass.WINDOW)

\* SemanticMaskOutput.validate: walls cover at least 1% and at most 95%
SemanticValidate(so) ==
    LET count == Cardinality({p \in DOMAIN so.mask : so.mask[p] = SemanticClass.WALL})
        total_pixels == so.height * so.width
    IN  ~(100 * count < 1 * total_pixels) /\ ~(100 * count > 95 * total_pixels)

\* hasattr(obj, name) on an object given by its attributes
HasAttr(obj, name) == name \in DOMAIN obj

\* np.zeros(self.image_shape[:2])
Zeros == [p \in StripPixels |-> 0]

\* dict.get(key, default)
DictGet(d, key, default) == IF key \in DOMAIN d THEN d[key] ELSE default

\* the masks _stage7_openings chooses: those of the dictionary
\* semantic_output.masks when the object has one, empty masks otherwise
Stage7Masks(so) ==
    IF HasAttr(so, "masks")
    THEN [door_mask |-> DictGet(so.masks, 2, Zeros),
          window_mask |-> DictGet(so.masks, 3, Zeros),
          wall_mask |-> DictGet(so.masks, 1, Zeros)]
    ELSE [door_mask |-> Zeros, window_mask |-> Zeros, wall_mask |-> Zeros]

\* the dictionary _extract_openings makes of one labelled component
Opening(region, scale_factor) ==
    LET x_min == Min({q[1] : q \in region})
        x_max == Max({q[1] : q \in region})
        y_min == Min({q[2] : q \in region})
        y_max == Max({q[2] : q \in region})
    IN  [position |-> <<RatDiv(Rat(x_min + x_max, 2), scale_factor),
                        RatDiv(Rat(y_min + y_max, 2), scale_factor)>>,
         size |-> <<RatDiv(R(x_max - x_min), scale_factor),
                    RatDiv(R(y_max - y_min), scale_factor)>>,
         bounds_px |-> <<x_min, y_min, x_max, y_max>>,
         area_px |-> Cardinality(region)]

\* OpeningDetector._extract_openings
ExtractOpenings(mask, scale_factor) ==
    LET regions == connectedComponents(mask, DefaultConnectivity)
    IN  [i \in 1..Len(regions) |-> Opening(regions[i], scale_factor)]

RECURSIVE generate_doors(_, _, _)
\* OpeningGenerator.generate_doors, from the i-th door on
generate_doors(mesh_, door_list, i) ==
    IF i > Len(door_list) THEN mesh_
    ELSE generate_doors(cut_rectangular_hole(mesh_,
                            DoorHole(door_list[i].position[1], door_list[i].position[2])),
                        door_list, i + 1)

RECURSIVE generate_windows(_, _, _)
\* OpeningGenerator.generate_windows, from the i-th window on
generate_windows(mesh_, window_list, i) ==
    IF i > Len(window_list) THEN mesh_
    ELSE generate_windows(cut_rectangular_hole(mesh_,
                              WindowHole(window_list[i].position[1],
                                         window_list[i].position[2])),
                          window_list, i + 1)

\* OpeningGenerator.generate_all: the doors, then the windows
generate_all(mesh_, doors, windows) ==
    generate_windows(generate_doors(mesh_, doors, 1), windows, 1)

\* stage7_openings_generation: detect, then cut into the mesh it was given
stage7_openings_generation(mesh_, door_mask, window_mask, wall_mask_, scale_factor) ==
    LET doors == ExtractOpenings(door_mask, scale_factor)
        windows == ExtractOpenings(window_mask, scale_factor)
    IN  [success |-> TRUE, mesh |-> generate_all(mesh_, doors, windows),
         doors |-> doors, windows |-> windows]

\* the scale factors of the normalization context
ScaleInputs == {R(1), R(5)}

\* the wall graph of one 0.4 m wall
OneWallGraph ==
    add_edge(add_vertex(add_vertex(WallTopologyGraph, <<R(0), R(0)>>, FALSE, FALSE),
                        <<<<2, 5>>, R(0)>>, FALSE, FALSE),
             0, 1, <<2, 5>>, <<>>)

NoMasks == [door_mask |-> <<>>, window_mask |-> <<>>, wall_mask |-> <<>>]
NoOpenings == [doors |-> <<>>, windows |-> <<>>]

IdleOpenings ==
    /\ semantic_output = None
    /\ normalization_context = None
    /\ handed = NoMasks
    /\ openings = NoOpenings
    /\ opc = "idle"

IdleCleanup ==
    /\ class_map = <<>>
    /\ cleaned_mask = <<>>
    /\ cpc = "idle"

IdleExtra == IdleCleanup

IdleUnits == IdleResult /\ IdleOpenings /\ IdleExport /\ IdleKeyPoints /\ IdleExtra

\* after stages 1 to 6: stage 1 accepted its classification, stage 5 left
\* a scale factor, stage 6 built the mesh
InitOpenings ==
    /\ \E mask \in [StripPixels -> {SemanticClass.BACKGROUND, SemanticClass.WALL,
                                      SemanticClass.DOOR, SemanticClass.WINDOW}] :
          /\ semantic_output = SemanticMaskOutput(mask, <<1, StripWidth>>)
          /\ SemanticValidate(semantic_output)
    /\ \E scale_factor \in ScaleInputs :
          normalization_context = [scale_factor |-> scale_factor]
    /\ handed = NoMasks
    /\ openings = NoOpenings
    /\ opc = "stage6 done"
    /\ graph = OneWallGraph
    /\ gpc = "built"
    /\ valid_res = NoValid
    /\ s3 = None
    /\ norm = NormalizeFailed
    /\ norm2 = NormalizeFailed
    /\ complete_mesh = build(OneWallGraph)
    /\ holes = <<>>

\* BlueprintPipeline._stage7_openings
Stage7OpeningsCall ==
    /\ opc = "stage6 done"
    /\ LET masks == Stage7Masks(semantic_output)
           res == stage7_openings_generation(complete_mesh, masks.door_mask,
                      masks.window_mask, masks.wall_mask,
                      normalization_context.scale_factor)
       IN  /\ handed' = masks
           /\ openings' = [doors |-> res.doors, windows |-> res.windows]
           /\ complete_mesh' = res.mesh
    /\ opc' = "stage7 done"
    /\ UNCHANGED <<semantic_output, normalization_context, holes, graphVars>>
    /\ UNCHANGED <<orchVars, roomVars, refineVars, resultVars, exportVars, keyVars, extraVars>>

NextOpenings == Stage7OpeningsCall

(***************************************************************************)
(* WallMaskRefinement.refine (stage2_wall_refinement.py) on the masks of a *)
(* SemanticMaskOutput.  Morphology is OpenCV's: dilate takes the maximum   *)
(* and erode the minimum over the kernel, pixels outside the image are     *)
(* left out of both.                                                       *)
(***************************************************************************)
MaskPixels == {<<x, y>> : x \in 0..(MaskWidth - 1), y \in 0..(MaskHeight - 1)}

\* cv2.getStructuringElement(cv2.MORPH_ELLIPSE, (size, size)) as the set of
\* offsets of its nonzero cells: a cross for 3, for 5 the square without
\* the four cells next to each corner of its top and bottom rows
getStructuringElement(size) ==
    IF size = 3
    THEN {d \in (-1..1) \X (-1..1) : d[1] = 0 \/ d[2] = 0}
    ELSE {d \in (-2..2) \X (-2..2) : Abs(d[2]) <= 1 \/ d[1] = 0}

\* the pixels of the image under the kernel centred at p
Under(p, kernel, image) ==
    {<<p[1] + d[1], p[2] + d[2]>> : d \in kernel} \cap DOMAIN image

dilate(image, kernel) ==
    [p \in DOMAIN image |-> Max({image[q] : q \in Under(p, kernel, image)})]

erode(image, kernel) ==
    [p \in DOMAIN image |-> Min({image[q] : q \in Under(p, kernel, image)})]

\* cv2.morphologyEx(image, cv2.MORPH_CLOSE, kernel)
MorphClose(image, kernel) == erode(dilate(image, kernel), kernel)

\* cv2.morphologyEx(image, cv2.MORPH_OPEN, kernel)
MorphOpen(image, kernel) == dilate(erode(image, kernel), kernel)

OpeningKernelSize == 3
CloseKernelSize == 5
OpenKernelSize == 3
MinComponentSize == 20

\* WallMaskRefinement._remove_openings_preserve_continuity
remove_openings_preserve_continuity(wall_mask_, opening_mask) ==
    LET dilated_openings == dilate(opening_mask, getStructuringElement(OpeningKernelSize))
    IN  [p \in DOMAIN wall_mask_ |-> IF dilated_openings[p] > 0 THEN 0 ELSE wall_mask_[p]]

\* WallMaskRefinement._morphological_cleanup
morphological_cleanup(mask) ==
    MorphOpen(MorphClose(mask, getStructuringElement(CloseKernelSize)),
              getStructuringElement(OpenKernelSize))

\* WallMaskRefinement._remove_small_components
remove_small_components(mask, min_size) ==
    LET regions == connectedComponents(mask, DefaultConnectivity)
        small == UNION {regions[i] : i \in {j \in 1..Len(regions) :
                                                Cardinality(regions[j]) < min_size}}
    IN  [p \in DOMAIN mask |-> IF p \in small THEN 0 ELSE mask[p]]

\* WallMaskRefinement.refine
refine(wall_mask_, door_mask, window_mask) ==
    LET no_doors == remove_openings_preserve_continuity(wall_mask_, door_mask)
        no_windows == remove_openings_preserve_continuity(no_doors, window_mask)
    IN  remove_small_components(morphological_cleanup(no_windows), MinComponentSize)

\* A classification of the image: a horizontal wall of the given thickness
\* across the whole width, with a door and a window standing in it (an
\* opening of width 0 is absent; a door takes a pixel before a window does).
WallTop == (MaskHeight - MaxThickness) \div 2
ClassMap(thickness, door_x, door_w, window_x, window_w) ==
    [p \in MaskPixels |->
        IF p[2] < WallTop \/ p[2] >= WallTop + thickness THEN SemanticClass.BACKGROUND
        ELSE IF door_x <= p[1] /\ p[1] < door_x + door_w THEN SemanticClass.DOOR
        ELSE IF window_x <= p[1] /\ p[1] < window_x + window_w THEN SemanticClass.WINDOW
        ELSE SemanticClass.WALL]

InitCleanup ==
    /\ \E thickness \in 2..MaxThickness, door_w, window_w \in 0..MaxOpeningWidth,
          door_x \in 3..5, window_x \in 7..9 :
          class_map = ClassMap(thickness, door_x, door_w, window_x, window_w)
    /\ cleaned_mask = <<>>
    /\ cpc = "segmented"

\* stage2_wall_mask_refinement up to refiner.refine() (lines 242-252)
Refine ==
    /\ cpc = "segmented"
    /\ LET so == SemanticMaskOutput(class_map, <<MaskHeight, MaskWidth>>)
       IN  cleaned_mask' = refine(get_wall_mask(so), get_door_mask(so), get_window_mask(so))
    /\ cpc' = "refined"
    /\ UNCHANGED class_map
    /\ UNCHANGED <<orchVars, roomVars, graphVars, refineVars, meshVars, resultVars,
                   openVars, exportVars, keyVars>>

NextCleanup ==
    \/ Refine

(***************************************************************************)
(* Properties of the orchestrator.                                         *)
(***************************************************************************)
Failed(k) == outcome[k] \in {"fail", "raise"}

\* C1: in any run the stages are started in the order 1, 2, ..., 9; stage
\* k+1 is started only after stage k returned success in that run (and stage
\* 1 only after the image load succeeded); once a stage or the image load
\* has failed, no later stage is started.
C1_StagesInOrder ==
    /\ \A i \in 1..Len(started) : started[i] = i
    /\ \A i \in 1..Len(started) :
          IF i = 1 THEN loaded = "ok" ELSE outcome[i - 1] = "ok"
    /\ \A k \in Stages : Failed(k) => (Len(started) = k /\ pc = Returned)
    /\ loaded \in {"fail", "raise"} => (started = <<>> /\ pc = Returned)

\* a second run stopped by stage 5 after a first run went through all nine
C1_Witness ==
    /\ runs = 2
    /\ at_start.out["glb_path"]
    /\ started = <<1, 2, 3, 4, 5>>
    /\ outcome[5] = "fail"
    /\ pc = Returned

\* C2: stage 9 is invoked only if stage 8 returned passed = true in the same
\* run, with all twelve checks recorded as passed; when a check failed or
\* stage 8 raised, the run writes no file and leaves glb_path as it found it
\* (unset on a fresh object).
C2_ExportOnlyAfterValidation ==
    /\ 9 \in {started[i] : i \in 1..Len(started)} =>
          /\ outcome[8] = "ok"
          /\ validation.passed
          /\ Len(validation.checks) = Len(CheckNames)
          /\ \A i \in 1..Len(validation.checks) : validation.checks[i][2]
    /\ (Failed(8) \/ \E i \in 1..Len(validation.checks) : ~validation.checks[i][2]) =>
          /\ files_written = at_start.files
          /\ out["glb_path"] = at_start.out["glb_path"]
          /\ (runs = 1 => ~out["glb_path"])
          /\ outcome[9] = "none"
          /\ pc = Returned

\* stage 8 recorded exactly one failed check (the manifold check) and the
\* run on a fresh object has returned
C2_Witness ==
    /\ runs = 1
    /\ pc = Returned
    /\ outcome[8] = "fail"
    /\ Len(validation.checks) = Len(CheckNames)
    /\ ~validation.checks[2][2]
    /\ \A i \in 1..Len(validation.checks) : i # 2 => validation.checks[i][2]

\* the stage a failure message names
NamedStage(m) ==
    CASE m = "Stage 1 failed (Semantic Understanding)" -> 1
      [] m = "Stage 2 failed (Wall Mask Refinement)" -> 2
      [] m = "Stage 3 failed (Topology Extraction)" -> 3
      [] m = "Stage 4 failed (Room Detection - FAIL FAST)" -> 4
      [] m = "Stage 5 failed (Metric Normalization)" -> 5
      [] m = "Stage 6 failed (3D Cutaway Construction)" -> 6
      [] m = "Stage 7 failed (Openings Generation)" -> 7
      [] m = "Stage 8 failed (Validation)" -> 8
      [] m = "Stage 9 failed (Export)" -> 9
      [] OTHER -> 0

\* C3: when stage k returned failure the run returns (False, message) with a
\* message naming stage k, the first and only stage that failed; when it is
\* the Room Detector, stage 5 is never entered and normalized_wall_graph is
\* left as it was (unset on a fresh object).
C3_FailureNamesStage ==
    \A k \in Stages : Failed(k) =>
        /\ pc = Returned
        /\ ~ret.success
        /\ NamedStage(ret.message) = k
        /\ \A j \in Stages : j # k => ~Failed(j)
        /\ k = 4 =>
              /\ 5 \notin {started[i] : i \in 1..Len(started)}
              /\ out["normalized_wall_graph"] = at_start.out["normalized_wall_graph"]
              /\ (runs = 1 => ~out["normalized_wall_graph"])

\* the Room Detector returned failure on a fresh object
C3_Witness ==
    /\ runs = 1
    /\ pc = Returned
    /\ outcome[4] = "fail"
    /\ ret = [success |-> FALSE, message |-> "Stage 4 failed (Room Detection - FAIL FAST)"]

\* C4: run_full_pipeline never propagates an exception: when a stage function
\* (or the image load) raised, the run has ended, it returned a (False,
\* message) tuple, and no later stage was started.
C4_NoExceptionPropagates ==
    /\ \A k \in Stages : outcome[k] = "raise" =>
          /\ pc = Returned
          /\ ret # NoReturn
          /\ ~ret.success
          /\ started = [i \in 1..k |-> i]
    /\ loaded = "raise" =>
          /\ pc = Returned
          /\ ret # NoReturn
          /\ ~ret.success
          /\ started = <<>>
    /\ pc = Returned => ret # NoReturn

\* stage 3 raised (as it does when the thinning routine is unavailable)
C4_Witness ==
    /\ pc = Returned
    /\ outcome[3] = "raise"
    /\ ~ret.success

\* the place of the manifold check among the checks of validate_all
ManifoldCheck == CHOOSE i \in 1..Len(CheckNames) : CheckNames[i] = "Mesh: Manifold Topology"

\* the manifold check is the only check stage 8 recorded as failed
OnlyManifoldFailed ==
    /\ Len(validation.checks) = Len(CheckNames)
    /\ ~validation.checks[ManifoldCheck][2]
    /\ \A i \in 1..Len(validation.checks) : i # ManifoldCheck => validation.checks[i][2]

\* C15: a mesh whose only failing check is the manifold check does not stop
\* the pipeline: when stage 8 recorded the manifold check as the only failed
\* check, the run is not halted at stage 8 (stage 8 succeeds and the run goes
\* on to the export).
C15_ManifoldAloneDoesNotHalt ==
    (8 \in {started[i] : i \in 1..Len(started)} /\ OnlyManifoldFailed)
        => /\ outcome[8] = "ok"
           /\ ret # [success |-> FALSE, message |-> "Stage 8 failed (Validation)"]

\* stage 8 was started in this run and validate_all returned
ValidateAllReturned ==
    8 \in {started[i] : i \in 1..Len(started)} /\ outcome[8] \in {"ok", "fail"}

\* the names of the checks of the three validators, with the prefix
\* validate_all gives them
MeshCheckNames ==
    {"Mesh: Geometry Count", "Mesh: Manifold Topology", "Mesh: Dimensions",
     "Mesh: Vertex Validity", "Mesh: Numerical Validity"}
ArchitectureCheckNames ==
    {"Architecture: Wall Count", "Architecture: Room Count",
     "Architecture: Room Separation", "Architecture: Graph Connectivity"}
CutawayCheckNames ==
    {"Cutaway: No Roof", "Cutaway: Open-Top Visibility", "Cutaway: Floor Exists"}

\* C25: validate_all never short-circuits: when it completes without an
\* exception the combined result holds exactly 12 checks in a fixed order
\* (5 mesh, 4 architecture, 3 cutaway), each recorded whether or not an
\* earlier check failed, and passed is the conjunction of the 12 outcomes.
C25_AllTwelveRecorded ==
    ValidateAllReturned
        => /\ Len(validation.checks) = 12
           /\ \A i \in 1..12 : validation.checks[i][1] = CheckNames[i]
           /\ \A i \in 1..5 : validation.checks[i][1] \in MeshCheckNames
           /\ \A i \in 6..9 : validation.checks[i][1] \in ArchitectureCheckNames
           /\ \A i \in 10..12 : validation.checks[i][1] \in CutawayCheckNames
           /\ validation.passed <=> \A i \in 1..12 : validation.checks[i][2]
           /\ (outcome[8] = "ok") <=> validation.passed

\* validate_all has returned a result in which a mesh check failed and a
\* cutaway check, recorded after it, failed as well
C25_Witness ==
    /\ ValidateAllReturned
    /\ Len(validation.checks) = 12
    /\ ~validation.checks[1][2]
    /\ ~validation.checks[12][2]
    /\ ~validation.passed

\* C26: after run_full_pipeline has returned, get_summary()['success']
\* equals the success flag the run returned: it is false whenever the run
\* stopped at a failed stage or a failed image load, not only when an
\* exception reached the outer handler.
C26_SummarySuccessIsRunSuccess ==
    pc = Returned => (get_summary.success <=> ret.success)

\* C27: on a fresh pipeline, after a run that stopped at stage k
\* get_summary()['stages_completed'] is k - 1 and the output fields of
\* stages k..9 are all unset; after a successful run it is 9; after a
\* failed image load it is 0.
C27_StagesCompleted ==
    (runs = 1 /\ pc = Returned)
        => /\ \A k \in Stages :
                 Failed(k) => /\ get_summary.stages_completed = k - 1
                              /\ \A j \in k..9 : \A f \in StageFields(j) : ~out[f]
           /\ ret.success => get_summary.stages_completed = 9
           /\ loaded \in {"fail", "raise"} => get_summary.stages_completed = 0

\* the first run of a pipeline was stopped by stage 5 and the summary
\* counts the four stages before it
C27_Witness ==
    /\ runs = 1
    /\ pc = Returned
    /\ outcome[5] = "fail"
    /\ get_summary.stages_completed = 4
    /\ out["room_set"]
    /\ ~out["normalized_wall_graph"]

(***************************************************************************)
(* Properties of room detection.                                           *)
(***************************************************************************)
PairwiseDisjoint(rs) ==
    \A i, j \in 1..Len(rs.rooms) :
        i # j => rs.rooms[i].pixels \cap rs.rooms[j].pixels = {}

\* C5: any two distinct rooms of the RoomSet returned by detect have
\* disjoint pixel sets, and check_overlap answers no_overlap = true exactly
\* when every pair of rooms of the set it is called on is disjoint.
C5_RoomsDisjoint ==
    /\ rpc \in {"detected", "checked", "separated", "stage4"}
          => PairwiseDisjoint(room_set)
    /\ rpc \in {"checked", "built checked"}
          => (overlap_res.no_overlap <=> PairwiseDisjoint(room_set))

\* check_overlap has answered on a set of three rooms whose first and last
\* rooms share a pixel while neighbours in the order of insertion do not
C5_Witness ==
    /\ rpc = "built checked"
    /\ Len(room_set.rooms) = 3
    /\ room_set.rooms[1].pixels \cap room_set.rooms[2].pixels = {}
    /\ room_set.rooms[2].pixels \cap room_set.rooms[3].pixels = {}
    /\ room_set.rooms[1].pixels \cap room_set.rooms[3].pixels # {}
    /\ ~overlap_res.no_overlap

\* the two rooms are wall-separated taken in one order or the other
SeparatedEitherWay(room1, room2, mask) ==
    GapExists(room1, room2, mask) \/ GapExists(room2, room1, mask)

\* C6: a pair of rooms whose bounding boxes are disjoint along x or y with
\* a wall pixel in the gap is accepted as wall-separated whatever the order
\* in which the two rooms were detected, and the three-room plan of the
\* test is accepted by stage4_room_detection.
C6_SeparationSymmetric ==
    /\ rpc = "separated"
          => ((\A i, j \in 1..Len(room_set.rooms) :
                  i < j => SeparatedEitherWay(room_set.rooms[i], room_set.rooms[j],
                                              wall_mask))
              => sep_res.is_separated)
    /\ (rpc = "stage4" /\ wall_mask = ThreeRoomPlan) => s4.accepted

\* the pixels of the mask that are not wall
NonWall(mask) == {p \in DOMAIN mask : mask[p] = 0}

\* C7: the candidate regions of detect are exactly the 4-connected
\* components of the non-wall pixels: two non-wall pixels carry the same
\* label iff a path of horizontally or vertically adjacent non-wall pixels
\* joins them (masks whose wall pixels are 1).
C7_FourConnectedRegions ==
    (rpc = "detected" /\ \A p \in DOMAIN wall_mask : wall_mask[p] \in {0, 1})
        => \A p, q \in NonWall(wall_mask) :
              (\E i \in 1..Len(labeled) : p \in labeled[i] /\ q \in labeled[i])
                  <=> q \in Flood({p}, {p}, NonWall(wall_mask), 4)

\* the pixels that are nonzero in the inverted mask: those that
\* cv2.connectedComponents put in a labelled region
LabelledPixels == UNION {labeled[i] : i \in 1..Len(labeled)}

\* C20: the inverted mask of detect is nonzero at a pixel iff the wall mask
\* is zero at that pixel, for masks whose wall pixels are stored as 1 and
\* for masks whose wall pixels are stored as 255; no wall pixel is a member
\* of a room.
C20_InvertedMaskIsNonWall ==
    rpc = "detected"
        => /\ \A p \in DOMAIN wall_mask :
                 /\ Invert(wall_mask)[p] # 0 <=> wall_mask[p] = 0
                 /\ p \in LabelledPixels <=> wall_mask[p] = 0
           /\ \A i \in 1..Len(room_set.rooms) :
                 \A p \in room_set.rooms[i].pixels : wall_mask[p] = 0

\* some pixel of the set lies in the first or last row or column
OnImageBoundary(pixels) ==
    \E q \in pixels : \/ q[1] = 0 \/ q[1] = GridWidth - 1
                      \/ q[2] = 0 \/ q[2] = GridHeight - 1

\* the labelled region is the pixel set of some room of the set
IsRoom(region, rs) == \E r \in 1..Len(rs.rooms) : rs.rooms[r].pixels = region

\* C21: a labelled non-wall component becomes a Room iff it has at least 20
\* pixels and none of its pixels lies in the first or last row or column of
\* the image; so no Room touches the image boundary and every component of
\* at least 20 pixels that is off the boundary is kept.
C21_RoomIffLargeAndOffBoundary ==
    rpc = "detected"
        => \A i \in 1..Len(labeled) :
              IsRoom(labeled[i], room_set)
                  <=> (Cardinality(labeled[i]) >= MinRoomArea
                       /\ ~OnImageBoundary(labeled[i]))

(***************************************************************************)
(* Properties of the wall graph and of the normalizer.                     *)
(***************************************************************************)
RECURSIVE ReachableFrom(_, _)
\* the vertex ids some path of adjacency entries leads to from the ids in S
ReachableFrom(g, S) ==
    LET T == S \cup UNION {g.adjacency[a + 1] : a \in S}
    IN  IF T = S THEN S ELSE ReachableFrom(g, T)

EveryVertexReachesEvery(g) ==
    \A a \in 0..(Len(g.vertices) - 1) :
        ReachableFrom(g, {a}) = 0..(Len(g.vertices) - 1)

WellFormed(g) ==
    /\ Len(g.vertices) >= 2
    /\ Len(g.edges) >= 1
    /\ EveryVertexReachesEvery(g)

\* C8: validate answers valid for a graph built by add_vertex and add_edge
\* iff the graph has at least 2 vertices, at least 1 edge and every vertex
\* is reachable from every other vertex through the adjacency mapping;
\* stage 3 returns a graph only when validate answered valid.
C8_ValidIffConnected ==
    /\ gpc = "validated" => (valid_res.valid <=> WellFormed(graph))
    /\ gpc = "stage3" => (s3 # None => (s3 = graph /\ WellFormed(graph)))
    /\ gpc = "stage3" => (s3 = None => ~WellFormed(graph))

\* validate has accepted a path of three vertices, and has run BFS from an
\* end of it
C8_Witness ==
    /\ gpc = "validated"
    /\ valid_res.valid
    /\ Len(graph.vertices) = 3
    /\ Len(graph.edges) = 2
    /\ graph.adjacency[1] = {1}
    /\ graph.adjacency[2] = {0, 2}

\* the bounding box of the vertex positions (integers in the inputs)
BoxWidth(g) ==
    Max({g.vertices[i].position[1][1] : i \in 1..Len(g.vertices)})
        - Min({g.vertices[i].position[1][1] : i \in 1..Len(g.vertices)})
BoxHeight(g) ==
    Max({g.vertices[i].position[2][1] : i \in 1..Len(g.vertices)})
        - Min({g.vertices[i].position[2][1] : i \in 1..Len(g.vertices)})

\* metres * scale = px, on fractions
TimesScaleIs(metres, scale, px) ==
    metres[1] * scale[1] * px[2] = px[1] * metres[2] * scale[2]

BoxScale(g) == Rat(Max({BoxWidth(g), BoxHeight(g)}), REFERENCE_BUILDING_WIDTH)

\* C23: normalize fails exactly when the wall graph or the room set is
\* missing or the scale factor (larger bounding-box dimension / 12) is
\* below 0.1 or above 100, and in no other case; a graph whose bounding box
\* has positive width and zero height is normalized successfully.
C23_FailsOnlyOnScale ==
    (gpc = "normalized" /\ Len(graph.vertices) > 0)
        => /\ ~norm.success
                 <=> \/ graph = None
                     \/ room_set = None
                     \/ RatLess(BoxScale(graph), <<1, 10>>)
                     \/ RatLess(<<100, 1>>, BoxScale(graph))
           /\ (BoxWidth(graph) > 0 /\ BoxHeight(graph) = 0) => norm.success

C30_NormalizePreservesStructure ==
    (gpc = "normalized" /\ norm.success)
        => /\ Len(norm.graph.vertices) = Len(graph.vertices)
           /\ \A i \in 1..Len(graph.vertices) :
                 /\ norm.graph.vertices[i].id = graph.vertices[i].id
                 /\ norm.graph.vertices[i].is_junction = graph.vertices[i].is_junction
                 /\ norm.graph.vertices[i].is_corner = graph.vertices[i].is_corner
                 /\ norm.graph.vertices[i].degree = graph.vertices[i].degree
           /\ Len(norm.graph.edges) = Len(graph.edges)
           /\ \A i \in 1..Len(graph.edges) :
                 /\ norm.graph.edges[i].id = graph.edges[i].id
                 /\ norm.graph.edges[i].vertex_a = graph.edges[i].vertex_a
                 /\ norm.graph.edges[i].vertex_b = graph.edges[i].vertex_b
           /\ norm.graph.adjacency = graph.adjacency
           /\ GraphValidate(norm.graph).valid = GraphValidate(graph).valid
           /\ Len(norm.room_set.rooms) = Len(room_set.rooms)
           /\ \A i \in 1..Len(room_set.rooms) :
                 /\ Cardinality(norm.room_set.rooms[i].pixels)
                       = Cardinality(room_set.rooms[i].pixels)
                 /\ norm.room_set.rooms[i].area_px = room_set.rooms[i].area_px
           /\ check_overlap(room_set).no_overlap => check_overlap(norm.room_set).no_overlap

\* a successful normalize of a connected graph with a junction vertex of
\* degree 2 and of two rooms that do not overlap
C30_Witness ==
    /\ gpc = "normalized"
    /\ norm.success
    /\ Len(graph.vertices) = 3
    /\ Len(graph.edges) = 2
    /\ GraphValidate(graph).valid
    /\ \E i \in 1..3 : graph.vertices[i].is_junction /\ graph.vertices[i].degree = 2
    /\ norm.graph.vertices # graph.vertices
    /\ Len(room_set.rooms) = 2
    /\ check_overlap(room_set).no_overlap
    /\ norm.room_set.rooms[2].pixels # room_set.rooms[2].pixels

(***************************************************************************)
(* Properties of the mesh builder and of the openings.                     *)
(***************************************************************************)
\* C13: build returns None when the wall graph has no edge, and for every
\* wall graph with at least one edge (edges of zero length included) it
\* returns a mesh with at least 8 vertices and at least 12 faces.
C13_MeshNonDegenerate ==
    gpc = "built" /\ holes = <<>>
        => /\ Len(graph.edges) = 0 => complete_mesh = None
           /\ Len(graph.edges) >= 1
                 => /\ complete_mesh # None
                    /\ Len(complete_mesh.vertices) >= 8
                    /\ Len(complete_mesh.faces) >= 12

\* build has returned the bare floor slab for a graph whose only edge
\* joins a vertex to itself
C13_Witness ==
    /\ gpc = "built"
    /\ holes = <<>>
    /\ Len(graph.edges) = 1
    /\ graph.edges[1].vertex_a = graph.edges[1].vertex_b
    /\ complete_mesh # None
    /\ Len(complete_mesh.vertices) = 8
    /\ Len(complete_mesh.faces) = 12

\* the number of edges of the graph whose end points differ
NonZeroEdges(g) ==
    Cardinality({i \in 1..Len(g.edges) :
                    g.vertices[g.edges[i].vertex_a + 1].position
                        # g.vertices[g.edges[i].vertex_b + 1].position})

StrictlyInside(mesh_, face, hole) ==
    LET hw == RatDiv(hole.width, R(2))
        hh == RatDiv(hole.height, R(2))
        v(k) == mesh_.vertices[face[k] + 1]
    IN  \A k \in 1..3 :
          /\ RatLess(RatSub(hole.center_x, hw), v(k)[1])
          /\ RatLess(v(k)[1], RatAdd(hole.center_x, hw))
          /\ RatLess(RatSub(hole.center_y, hh), v(k)[2])
          /\ RatLess(v(k)[2], RatAdd(hole.center_y, hh))
          /\ RatLess(hole.z_bottom, v(k)[3])
          /\ RatLess(v(k)[3], hole.z_top)

\* C14: cut_rectangular_hole removes exactly the faces whose three
\* vertices all lie strictly inside the cut volume (a face with a vertex on
\* a bound of the volume is kept); the other faces stay in their order.
C14_CutStrictlyInside ==
    [][Len(holes') = Len(holes) + 1
          => LET hole == holes'[Len(holes')]
                 Kept(face) == ~StrictlyInside(complete_mesh, face, hole)
             IN  complete_mesh'.faces = SelectSeq(complete_mesh.faces, Kept)]_vars

\* the heights the builder gives to vertices: under the slab, the ground,
\* the top of the walls
BuilderHeights == {<<-3, 25>>, <<0, 1>>, <<13, 10>>}

\* the three vertices of the face have height 0
InGroundPlane(mesh_, face) ==
    \A k \in 1..3 : mesh_.vertices[face[k] + 1][3] = <<0, 1>>

\* the face values of the mesh
FaceSet(mesh_) == {mesh_.faces[i] : i \in 1..Len(mesh_.faces)}

\* C28: on a mesh produced by the builder (vertex heights -0.12, 0 or 1.3
\* only) a cut never changes the vertex list, a window cut (z from 0.65 to
\* 1.15) removes no face, and a door cut (z from 0 to 1.1) removes only
\* faces lying entirely in the plane z = 0: the faces with a vertex off
\* that plane (wall sides, wall tops) all stay, in their order.
C28_CutsOnlyGroundFaces ==
    [][Len(holes') = Len(holes) + 1
          => LET hole == holes'[Len(holes')]
                 OffGround(face) == ~InGroundPlane(complete_mesh, face)
             IN  /\ \A i \in 1..Len(complete_mesh.vertices) :
                       complete_mesh.vertices[i][3] \in BuilderHeights
                 /\ complete_mesh'.vertices = complete_mesh.vertices
                 /\ hole.z_bottom = <<13, 20>> => complete_mesh'.faces = complete_mesh.faces
                 /\ hole.z_bottom = <<0, 1>>
                       => /\ \A face \in FaceSet(complete_mesh) \ FaceSet(complete_mesh') :
                                InGroundPlane(complete_mesh, face)
                          /\ SelectSeq(complete_mesh'.faces, OffGround)
                                = SelectSeq(complete_mesh.faces, OffGround)]_vars

\* a door was cut in the mesh of a wall and took faces away
C28_Witness ==
    /\ gpc = "built"
    /\ Len(holes) = 1
    /\ holes[1].z_bottom = <<0, 1>>
    /\ NonZeroEdges(graph) >= 1
    /\ Len(complete_mesh.faces) < 12 + 12 * NonZeroEdges(graph)

\* some edge of the mesh belongs to exactly one face
HasBorderEdge(mesh_) ==
    \E i \in 1..Len(mesh_.faces), k \in 1..3 :
        EdgeCount(mesh_, FaceEdges(mesh_.faces[i])[k]) = 1

\* what MeshValidator._check_manifold records for the mesh
CheckManifold(mesh_) ==
    add_check(ValidationResult, "Manifold Topology", validate_manifold(mesh_),
              "Manifold Topology")

WallPixelCount(mask) == Cardinality({p \in DOMAIN mask : mask[p] # 0})

CountOutOfRange(mask) ==
    \/ WallPixelCount(mask) < 100
    \/ 100 * WallPixelCount(mask) > 95 * Cardinality(DOMAIN mask)

\* C9: stage 2 fails exactly when the number of wall pixels of the refined
\* mask is below 100 or above 95% of the number of pixels, whether wall
\* pixels are stored as 1 or as 255, and an all-zero mask fails with the
\* "too few wall pixels" reason.
C9_FailsExactlyOnCount ==
    /\ fpc = "validated"
          => /\ v2.is_valid <=> ~CountOutOfRange(refined_mask)
             /\ WallPixelCount(refined_mask) = 0
                   => v2.message = "Too few wall pixels remaining after refinement"
    /\ fpc = "stage2" => (s2 = None <=> CountOutOfRange(refined_mask))

\* the pixels the classification gave to doors or windows
OpeningPixels ==
    {p \in DOMAIN class_map : class_map[p] \in {SemanticClass.DOOR, SemanticClass.WINDOW}}

\* C22: in the mask returned by refine every pixel set in the door mask or
\* in the window mask is zero: the closing and opening that run after the
\* openings were zeroed never turn such a pixel back into a wall pixel.
C22_OpeningsStayOpen ==
    cpc = "refined" => \A p \in OpeningPixels : cleaned_mask[p] = 0

(***************************************************************************)
(* Properties of ValidationResult.                                         *)
(***************************************************************************)
\* the messages of the failed checks, in the order of the calls
FailedMessages(checks) ==
    LET Not(c) == ~c[2]
        failed == SelectSeq(checks, Not)
    IN  [i \in 1..Len(failed) |-> failed[i][3]]

\* C16: after any sequence of add_check and add_warning calls on a fresh
\* ValidationResult, passed is true iff every recorded check passed, and
\* errors holds exactly the messages of the failed checks in call order;
\* add_warning never changes passed, and once passed is false no later
\* call makes it true again.
C16_PassedIffAllChecksPassed ==
    /\ [](combined_result.passed
             <=> \A i \in 1..Len(combined_result.checks) : combined_result.checks[i][2])
    /\ [](combined_result.errors = FailedMessages(combined_result.checks))
    /\ [][combined_result'.warnings # combined_result.warnings
             => combined_result'.passed = combined_result.passed]_vars
    /\ [][~combined_result.passed => ~combined_result'.passed]_vars

\* a failed check between two passed ones, then a warning: passed stays
\* false and errors holds the one message
C16_Witness ==
    /\ Len(combined_result.checks) = 3
    /\ combined_result.checks[1][2]
    /\ ~combined_result.checks[2][2]
    /\ combined_result.checks[3][2]
    /\ Len(combined_result.warnings) = 1
    /\ ~combined_result.passed
    /\ combined_result.errors = <<"Non-manifold edges: 4">>

(***************************************************************************)
(* Properties of stage 7 in the orchestrator.                              *)
(***************************************************************************)
\* some detected opening has the bounding box of the region
DetectedAs(region, list) ==
    \E i \in 1..Len(list) :
        list[i].bounds_px = Opening(region, R(1)).bounds_px

\* C17: the door mask and window mask handed to stage 7 are the door and
\* window masks of stage 1's classification output, and every door or window
\* region the classifier labelled is detected as an opening.
C17_Stage7GetsStage1Masks ==
    opc = "stage7 done"
        => /\ handed.door_mask = get_door_mask(semantic_output)
           /\ handed.window_mask = get_window_mask(semantic_output)
           /\ LET regions == connectedComponents(get_door_mask(semantic_output),
                                                 DefaultConnectivity)
              IN  \A i \in 1..Len(regions) : DetectedAs(regions[i], openings.doors)
           /\ LET regions == connectedComponents(get_window_mask(semantic_output),
                                                 DefaultConnectivity)
              IN  \A i \in 1..Len(regions) : DetectedAs(regions[i], openings.windows)

(***************************************************************************)
(* Properties of the GLB file.                                             *)
(***************************************************************************)
\* the little-endian uint32 at bytes at + 1 .. at + 4 of the file
U32At(file, at) ==
    file[at + 1] + 256 * file[at + 2] + 65536 * file[at + 3] + 16777216 * file[at + 4]

\* C18: the file written starts with three little-endian uint32 values:
\* the magic 0x46546C67, the version 2 and a total length equal to the number
\* of bytes written, 12 + (8 + J) + (8 + B); J and B, the lengths the two
\* chunks declare, are multiples of 4 and are the lengths of the JSON text
\* and of the buffer after padding.
C18_GlbHeader ==
    xpc = "written"
        => LET J == U32At(glb_file, 12)
               B == U32At(glb_file, 20 + J)
           IN  /\ U32At(glb_file, 0) = 1179937895
               /\ U32At(glb_file, 4) = 2
               /\ U32At(glb_file, 8) = Len(glb_file)
               /\ Len(glb_file) = 12 + (8 + J) + (8 + B)
               /\ J % 4 = 0
               /\ B % 4 = 0
               /\ J \in Len(gltf_json_bytes)..(Len(gltf_json_bytes) + 3)
               /\ B \in Len(buffer_data)..(Len(buffer_data) + 3)
               /\ SubSeq(glb_file, 21, 20 + Len(gltf_json_bytes)) = gltf_json_bytes
               /\ SubSeq(glb_file, 29 + J, 28 + J + Len(buffer_data)) = buffer_data

\* a file was written for a JSON text that needs three bytes of padding and
\* a mesh with geometry
C18_Witness ==
    /\ xpc = "written"
    /\ Len(gltf_json_bytes) = 5
    /\ Len(buffer_data) = 36
    /\ Len(glb_file) = 72

(***************************************************************************)
(* Properties of the key points.                                           *)
(***************************************************************************)
\* the set pixels among the 8 neighbours of the pixel
SetNeighbours(sk, q) == {n \in Neighbours(q, 8) \cap DOMAIN sk : sk[n] # 0}

InList(q, list) == \E i \in 1..Len(list) : list[i] = q

\* the two set neighbours of the pixel lie in perpendicular directions
Perpendicular(sk, q) ==
    \E a, b \in SetNeighbours(sk, q) :
        /\ a # b
        /\ (a[1] - q[1]) * (b[1] - q[1]) + (a[2] - q[2]) * (b[2] - q[2]) = 0

\* C19: every skeleton pixel is classified by the number n of set pixels
\* among its 8 neighbours, whether a set pixel is stored as 1 or as 255:
\* n = 1 gives an endpoint, n = 2 a corner iff the two neighbour directions
\* have dot product 0 (no vertex otherwise), n >= 3 a junction, n = 0 no
\* vertex; a pixel that is not set gives no vertex.
C19_ClassifiedByNeighbourCount ==
    kpc = "detected"
        => \A q \in SkeletonPixels :
              LET n == Cardinality(SetNeighbours(skeleton, q))
                  set == skeleton[q] # 0
              IN  /\ InList(q, key_points.endpoints) <=> (set /\ n = 1)
                  /\ InList(q, key_points.corners)
                        <=> (set /\ n = 2 /\ Perpendicular(skeleton, q))
                  /\ InList(q, key_points.junctions) <=> (set /\ n >= 3)

Init == InitOrch /\ IdleRooms /\ IdleGraph /\ IdleRefine /\ IdleUnits
Next == NextOrch
Spec == Init /\ [][Next]_vars

SpecRoomsInit == InitOrch /\ InitRooms /\ IdleGraph /\ IdleRefine /\ IdleUnits
SpecRooms == SpecRoomsInit /\ [][NextRooms]_vars

SpecGraphInit ==
    /\ InitOrch
    /\ InitGraph
    /\ IdleRefine
    /\ IdleUnits
    /\ wall_mask = <<>>
    /\ labeled = <<>>
    /\ room_set \in NormRoomInputs
    /\ rpc = "idle"
    /\ overlap_res = NoResult
    /\ sep_res = NoSeparation
    /\ s4 = NoStage4
SpecGraph == SpecGraphInit /\ [][NextGraph]_vars

SpecMeshInit == InitOrch /\ IdleRooms /\ InitMesh /\ IdleRefine /\ IdleUnits
SpecMesh == SpecMeshInit /\ [][NextMesh]_vars

SpecRefineInit == InitOrch /\ IdleRooms /\ IdleGraph /\ InitRefine /\ IdleUnits
SpecRefine == SpecRefineInit /\ [][NextRefine]_vars

SpecResultInit ==
    InitOrch /\ IdleRooms /\ IdleGraph /\ IdleRefine /\ InitResult /\ IdleOpenings /\ IdleExport
        /\ IdleKeyPoints /\ IdleExtra
SpecResult == SpecResultInit /\ [][NextResult]_vars

SpecOpeningsInit ==
    InitOrch /\ IdleRooms /\ IdleRefine /\ IdleResult /\ InitOpenings /\ IdleExport
        /\ IdleKeyPoints /\ IdleExtra
SpecOpenings == SpecOpeningsInit /\ [][NextOpenings]_vars

SpecExportInit ==
    InitOrch /\ IdleRooms /\ IdleGraph /\ IdleRefine /\ IdleResult /\ IdleOpenings /\ InitExport
        /\ IdleKeyPoints /\ IdleExtra
SpecExport == SpecExportInit /\ [][NextExport]_vars

SpecKeyPointsInit ==
    InitOrch /\ IdleRooms /\ IdleGraph /\ IdleRefine /\ IdleResult /\ IdleOpenings /\ IdleExport
        /\ InitKeyPoints /\ IdleExtra
SpecKeyPoints == SpecKeyPointsInit /\ [][NextKeyPoints]_vars

SpecCleanupInit ==
    InitOrch /\ IdleRooms /\ IdleGraph /\ IdleRefine /\ IdleResult /\ IdleOpenings /\ IdleExport
        /\ IdleKeyPoints /\ InitCleanup
SpecCleanup == SpecCleanupInit /\ [][NextCleanup]_vars
====
